---------------------------- MODULE Spec2Model ----------------------------
(***************************************************************************)
(* A model of the exath-engine core: tokenizer, recursive-descent parser,  *)
(* complex-valued AST evaluator and the Session layer.                     *)
(*                                                                         *)
(* Representation.                                                         *)
(*   - A character is a one-character string; a few non-ASCII code points  *)
(*     are written "U+XXXX".  Input text and names are sequences of        *)
(*     characters.                                                         *)
(*   - An f64 is modelled by an exact rational <<n, d>> in lowest terms    *)
(*     with d > 0; rounding is not modelled.  A value whose numerator or   *)
(*     denominator leaves the modelled range is reported by the evaluator  *)
(*     as the outcome "OutOfModel", and a power with a non-integer         *)
(*     exponent (an irrational result) likewise.                           *)
(*   - Result<T, ExathError> is a record [ok, kind, val]; only the error   *)
(*     kind is kept, not the message.                                      *)
(***************************************************************************)
EXTENDS Integers, Sequences, FiniteSets, TLC

\* ------------------------------------------------------------------------
\* Bounds of the model
\* ------------------------------------------------------------------------

\* Largest numerator magnitude and denominator of a modelled value.
MaxNum == 1000
MaxDen == 12
\* Deepest nesting of user-function calls before the evaluation is reported
\* as exhausting the stack.
MaxCallDepth == 4

\* The longest body written between two bars
MaxBarLen == 3

\* The most arguments written in a call of min or max
MaxArgs == 3

\* The most terms of a sum or product that are followed
MaxTerms == 6

\* ------------------------------------------------------------------------
\* Characters
\* ------------------------------------------------------------------------

UpperChars == <<"A","B","C","D","E","F","G","H","I","J","K","L","M",
                "N","O","P","Q","R","S","T","U","V","W","X","Y","Z">>
LowerChars == <<"a","b","c","d","e","f","g","h","i","j","k","l","m",
                "n","o","p","q","r","s","t","u","v","w","x","y","z">>
DigitChars == <<"0","1","2","3","4","5","6","7","8","9">>

\* A value computed once and handed to its continuation.
Bind(v, K(_)) == K(v)

Range(s) == { s[i] : i \in 1..Len(s) }

IndexOf(s, c) == CHOOSE i \in 1..Len(s) : s[i] = c

is_ascii_digit(c) == c \in Range(DigitChars)
is_ascii_alphabetic(c) == c \in Range(UpperChars) \cup Range(LowerChars)
is_ascii_alphanumeric(c) == is_ascii_alphabetic(c) \/ is_ascii_digit(c)

to_digit(c) == IndexOf(DigitChars, c) - 1

char_to_lowercase(c) ==
    IF c \in Range(UpperChars) THEN LowerChars[IndexOf(UpperChars, c)] ELSE c

\* Variant: str::to_lowercase leaves the text as written.
to_lowercase_as_written(s) == s

\* str::to_lowercase on the characters of the model (ASCII letters and the
\* lower-case Greek letters, which are their own lower case).
to_lowercase(s) == [i \in 1..Len(s) |-> char_to_lowercase(s[i])]

\* Byte order of the ASCII characters a name can hold: digits < upper-case
\* letters < '_' < lower-case letters.
CharOrd(c) ==
    IF is_ascii_digit(c) THEN 48 + to_digit(c)
    ELSE IF c \in Range(UpperChars) THEN 65 + IndexOf(UpperChars, c) - 1
    ELSE IF c = "_" THEN 95
    ELSE IF c \in Range(LowerChars) THEN 97 + IndexOf(LowerChars, c) - 1
    ELSE 128

\* The text of a character sequence as one string.
RECURSIVE Join(_)
Join(s) == IF s = <<>> THEN "" ELSE Head(s) \o Join(Tail(s))

\* char::is_whitespace on the characters of the model
is_whitespace(c) == c \in {" ", "\t"}

RECURSIVE trim_start(_)
trim_start(s) ==
    IF s # <<>> /\ is_whitespace(Head(s)) THEN trim_start(Tail(s)) ELSE s

RECURSIVE trim_end(_)
trim_end(s) ==
    IF s # <<>> /\ is_whitespace(s[Len(s)])
    THEN trim_end(SubSeq(s, 1, Len(s) - 1)) ELSE s

trim(s) == trim_end(trim_start(s))

\* str::find(char): the least index holding c, 0 when there is none
\* (indices are 1-based here).
find(s, c) ==
    IF \E i \in 1..Len(s) : s[i] = c
    THEN CHOOSE i \in 1..Len(s) : s[i] = c /\ \A j \in 1..(i-1) : s[j] # c
    ELSE 0

\* ------------------------------------------------------------------------
\* f64 as exact rationals
\* ------------------------------------------------------------------------

Abs(n) == IF n < 0 THEN -n ELSE n

RECURSIVE GCD(_, _)
GCD(a, b) == IF b = 0 THEN a ELSE GCD(b, a % b)

RNorm(n, d) ==
    LET g == GCD(Abs(n), Abs(d))
        s == IF d < 0 THEN -1 ELSE 1
    IN  <<(s * n) \div g, (s * d) \div g>>

R(n) == <<n, 1>>
RZero == <<0, 1>>
ROne == <<1, 1>>

RAdd(a, b) == RNorm(a[1] * b[2] + b[1] * a[2], a[2] * b[2])
RSub(a, b) == RNorm(a[1] * b[2] - b[1] * a[2], a[2] * b[2])
RMul(a, b) == RNorm(a[1] * b[1], a[2] * b[2])
RDiv(a, b) == RNorm(a[1] * b[2], a[2] * b[1])
RNeg(a) == <<-a[1], a[2]>>
RAbs(a) == <<Abs(a[1]), a[2]>>
RLt(a, b) == a[1] * b[2] < b[1] * a[2]
RLe(a, b) == a[1] * b[2] <= b[1] * a[2]
RIsInt(a) == a[2] = 1
\* f64::trunc
RTrunc(a) ==
    IF a[1] >= 0 THEN R(a[1] \div a[2]) ELSE R(-((-a[1]) \div a[2]))
\* the % operator of f64 (fmod: the result has the sign of the dividend)
RRem(a, b) == RSub(a, RMul(b, RTrunc(RDiv(a, b))))

RInRange(a) == Abs(a[1]) <= MaxNum /\ a[2] <= MaxDen


\* ------------------------------------------------------------------------
\* Errors and results
\* ------------------------------------------------------------------------

ErrorKinds == {"ParseError", "UndefinedName", "ArgumentCount", "ArgumentType",
               "DomainError", "Overflow", "ComplexResult", "RangeTooLarge"}

\* Outcomes of the model that are no ExathError: a value outside the
\* modelled range, and the stack overflow of an unbounded recursion.
ModelOutcomes == {"OutOfModel", "StackOverflow"}

\* ------------------------------------------------------------------------
\* Complex kernel
\* ------------------------------------------------------------------------

CxOf(re, im) == [re |-> re, im |-> im]
CxReal(re) == [re |-> re, im |-> RZero]
CxZero == CxReal(RZero)

Ok(v) == [ok |-> TRUE, kind |-> "Ok", val |-> v]
Err(k) == [ok |-> FALSE, kind |-> k, val |-> CxZero]

\* |im| < 1e-12.  Every modelled value has a denominator of at most MaxDen,
\* so a non-zero |im| is at least 1/MaxDen and the test is im = 0.
is_real(c) == c.im[1] = 0

CxIsZero(c) == c.re[1] = 0 /\ c.im[1] = 0

CxInRange(c) == RInRange(c.re) /\ RInRange(c.im)

CxAdd(a, b) == CxOf(RAdd(a.re, b.re), RAdd(a.im, b.im))
CxSub(a, b) == CxOf(RSub(a.re, b.re), RSub(a.im, b.im))
CxMul(a, b) ==
    CxOf(RSub(RMul(a.re, b.re), RMul(a.im, b.im)),
         RAdd(RMul(a.re, b.im), RMul(a.im, b.re)))
CxDiv(a, b) ==
    LET denominator == RAdd(RMul(b.re, b.re), RMul(b.im, b.im))
    IN  IF denominator[1] = 0 THEN Err("DomainError")
        ELSE Ok(CxOf(RDiv(RAdd(RMul(a.re, b.re), RMul(a.im, b.im)), denominator),
                     RDiv(RSub(RMul(a.im, b.re), RMul(a.re, b.im)), denominator)))
\* Variant: the conjugate in place of the negation.
CxNegAsConj(a) == CxOf(a.re, RNeg(a.im))

CxNeg(a) == CxOf(RNeg(a.re), RNeg(a.im))

\* acc * z^n for a natural n by repeated multiplication, stopping as soon as
\* the value leaves the modelled range.
RECURSIVE CxPowNat(_, _, _)
CxPowNat(z, n, acc) ==
    IF n = 0 THEN Ok(acc)
    ELSE IF ~CxInRange(CxMul(acc, z)) THEN Err("OutOfModel")
    ELSE CxPowNat(z, n - 1, CxMul(acc, z))

\* Cx::pow: exp(ln(self) * exponent).  For a real integer exponent this is
\* the integer power, which the f64 result equals up to the rounding of ln,
\* the product and exp; any other exponent gives a value the rationals do
\* not hold.
CxPow(base, exponent) ==
    IF CxIsZero(base)
    THEN IF exponent.re[1] > 0 THEN Ok(CxReal(RZero)) ELSE Err("DomainError")
    ELSE IF is_real(exponent) /\ RIsInt(exponent.re)
         THEN IF exponent.re[1] >= 0
              THEN CxPowNat(base, exponent.re[1], CxReal(ROne))
              ELSE Bind(CxPowNat(base, -exponent.re[1], CxReal(ROne)), LAMBDA p :
                     IF p.ok THEN CxDiv(CxReal(ROne), p.val) ELSE p)
         ELSE Err("OutOfModel")

\* CalcResult: Real(re) or Complex(re, im)
CalcReal(re) == [tag |-> "Real", re |-> re, im |-> RZero]
CalcComplex(re, im) == [tag |-> "Complex", re |-> re, im |-> im]

to_calc_result(c) ==
    IF is_real(c) THEN CalcReal(c.re) ELSE CalcComplex(c.re, c.im)

\* ------------------------------------------------------------------------
\* Tokens
\* ------------------------------------------------------------------------

Tok(t) == [t |-> t, val |-> RZero, name |-> <<>>]
TokNumber(v) == [t |-> "Number", val |-> v, name |-> <<>>]
TokIdent(n) == [t |-> "Ident", val |-> RZero, name |-> n]

TokOk(toks) == [ok |-> TRUE, kind |-> "Ok", tokens |-> toks]
TokErr(k) == [ok |-> FALSE, kind |-> k, tokens |-> <<>>]

GreekChars == {"U+03C0", "U+03D5", "U+03B5"}
MarkerChars == {"U+2041", "U+203E", "U+208D", "U+208E"}

\* the value of a run of decimal digits
RECURSIVE DigitsValue(_)
DigitsValue(ds) ==
    IF ds = <<>> THEN 0
    ELSE DigitsValue(SubSeq(ds, 1, Len(ds) - 1)) * 10 + to_digit(ds[Len(ds)])

RECURSIVE Pow10(_)
Pow10(k) == IF k = 0 THEN 1 ELSE 10 * Pow10(k - 1)

\* str::parse::<f64> on a text of digits and '.': an error when it holds
\* more than one '.' or no digit.
parse_f64(num_str) ==
    LET dots == { i \in 1..Len(num_str) : num_str[i] = "." }
    IN  IF Cardinality(dots) > 1 \/ Len(num_str) = Cardinality(dots)
        THEN [ok |-> FALSE, val |-> RZero]
        ELSE IF dots = {}
        THEN [ok |-> TRUE, val |-> R(DigitsValue(num_str))]
        ELSE LET d == CHOOSE i \in dots : TRUE
                 whole == SubSeq(num_str, 1, d - 1)
                 frac == SubSeq(num_str, d + 1, Len(num_str))
             IN  [ok |-> TRUE,
                  val |-> RNorm(DigitsValue(whole) * Pow10(Len(frac))
                                  + DigitsValue(frac), Pow10(Len(frac)))]

\* the position after the run of digits starting at pos
RECURSIVE scan_digits(_, _)
scan_digits(chars, pos) ==
    IF pos <= Len(chars) /\ is_ascii_digit(chars[pos])
    THEN scan_digits(chars, pos + 1) ELSE pos

\* the position after the run of digits and '.' starting at pos
RECURSIVE scan_digits_dots(_, _)
scan_digits_dots(chars, pos) ==
    IF pos <= Len(chars) /\ (is_ascii_digit(chars[pos]) \/ chars[pos] = ".")
    THEN scan_digits_dots(chars, pos + 1) ELSE pos

\* the position after the run of letters, digits and '_' starting at pos
RECURSIVE scan_ident(_, _)
scan_ident(chars, pos) ==
    IF pos <= Len(chars) /\ (is_ascii_alphanumeric(chars[pos]) \/ chars[pos] = "_")
    THEN scan_ident(chars, pos + 1) ELSE pos

\* the position of the first U+208E at or after pos (Len + 1 when none)
RECURSIVE scan_log_base(_, _)
scan_log_base(chars, pos) ==
    IF pos <= Len(chars) /\ chars[pos] # "U+208E"
    THEN scan_log_base(chars, pos + 1) ELSE pos

\* The operator characters of a bar block and the tokens they stand for
bar_operator(ch) ==
    CASE ch = "+" -> "Plus"
      [] ch \in {"-", "U+2212"} -> "Minus"
      [] ch \in {"*", "U+00D7"} -> "Mul"
      [] ch \in {"/", "U+00F7"} -> "Div"
      [] ch = "^" -> "Pow"
      [] ch = "(" -> "LParen"
      [] ch = ")" -> "RParen"
      [] OTHER -> ""

\* Variant: a digit inside the bars is skipped like any other character.
bar_token_without_digits(ch) ==
    IF bar_operator(ch) # "" THEN [some |-> TRUE, tok |-> Tok(bar_operator(ch))]
    ELSE [some |-> FALSE, tok |-> Tok("")]

\* The token one character inside the bars gives: an operator, a one-digit
\* number, or none (the character is skipped)
bar_token(ch) ==
    IF bar_operator(ch) # "" THEN [some |-> TRUE, tok |-> Tok(bar_operator(ch))]
    ELSE IF is_ascii_digit(ch) THEN [some |-> TRUE, tok |-> TokNumber(R(to_digit(ch)))]
    ELSE [some |-> FALSE, tok |-> Tok("")]

\* The bar block |...|: the loop that re-scans the characters up to the
\* closing bar.  Returns the position after the block and the tokens.
RECURSIVE bar_block(_, _, _)
bar_block(chars, pos, tokens) ==
    IF pos > Len(chars) THEN [pos |-> pos, tokens |-> tokens]
    ELSE IF chars[pos] = "|" THEN [pos |-> pos + 1, tokens |-> tokens]
    ELSE IF bar_token(chars[pos]).some
         THEN bar_block(chars, pos + 1, Append(tokens, bar_token(chars[pos]).tok))
    ELSE bar_block(chars, pos + 1, tokens)

\* Variant: any next character counts as the one looked for.
next_is_any(chars, pos, c) == pos <= Len(chars)

next_is(chars, pos, c) == pos <= Len(chars) /\ chars[pos] = c

RECURSIVE tokenize_from(_, _, _)
tokenize_from(chars, pos, tokens) ==
    IF pos > Len(chars) THEN TokOk(tokens)
    ELSE LET ch == chars[pos]
             push(tok, n) == tokenize_from(chars, pos + n, Append(tokens, tok))
         IN
         CASE ch \in {" ", "\t"} \cup MarkerChars -> tokenize_from(chars, pos + 1, tokens)
           [] ch = "+" -> push(Tok("Plus"), 1)
           [] ch \in {"-", "U+2212"} -> push(Tok("Minus"), 1)
           [] ch \in {"*", "U+00D7"} ->
                IF next_is(chars, pos + 1, "*") THEN push(Tok("Pow"), 2)
                ELSE push(Tok("Mul"), 1)
           [] ch \in {"/", "U+00F7"} -> push(Tok("Div"), 1)
           [] ch = "^" -> push(Tok("Pow"), 1)
           [] ch = "(" -> push(Tok("LParen"), 1)
           [] ch = ")" -> push(Tok("RParen"), 1)
           [] ch = "," -> push(Tok("Comma"), 1)
           [] ch = "%" -> push(Tok("Mod"), 1)
           [] ch = "!" ->
                IF next_is(chars, pos + 1, "=") THEN push(Tok("Ne"), 2)
                ELSE push(Tok("Factorial"), 1)
           [] ch = "=" ->
                IF next_is(chars, pos + 1, "=") THEN push(Tok("EqEq"), 2)
                ELSE TokErr("ParseError")
           [] ch = "<" ->
                IF next_is(chars, pos + 1, "=") THEN push(Tok("Le"), 2)
                ELSE push(Tok("Lt"), 1)
           [] ch = ">" ->
                IF next_is(chars, pos + 1, "=") THEN push(Tok("Ge"), 2)
                ELSE push(Tok("Gt"), 1)
           [] ch = "&" ->
                IF next_is(chars, pos + 1, "&") THEN push(Tok("AndAnd"), 2)
                ELSE TokErr("ParseError")
           [] ch = "|" ->
                IF next_is(chars, pos + 1, "|") THEN push(Tok("OrOr"), 2)
                ELSE LET blk == bar_block(chars, pos + 1,
                                          tokens \o <<TokIdent(<<"a","b","s">>),
                                                      Tok("LParen")>>)
                     IN  tokenize_from(chars, blk.pos, Append(blk.tokens, Tok("RParen")))
           [] ch = "." ->
                LET stop == scan_digits(chars, pos + 1)
                IN  IF stop = pos + 1 THEN TokErr("ParseError")
                    ELSE LET num == parse_f64(<<"0", ".">> \o SubSeq(chars, pos + 1, stop - 1))
                         IN  IF num.ok
                             THEN tokenize_from(chars, stop, Append(tokens, TokNumber(num.val)))
                             ELSE TokErr("ParseError")
           [] is_ascii_digit(ch) ->
                LET stop1 == scan_digits_dots(chars, pos)
                    comma == next_is(chars, stop1, ",")
                             /\ stop1 + 1 <= Len(chars)
                             /\ is_ascii_digit(chars[stop1 + 1])
                    stop2 == IF comma THEN scan_digits(chars, stop1 + 1) ELSE stop1
                    num_str == IF comma
                               THEN SubSeq(chars, pos, stop1 - 1) \o <<".">>
                                      \o SubSeq(chars, stop1 + 1, stop2 - 1)
                               ELSE SubSeq(chars, pos, stop1 - 1)
                    num == parse_f64(num_str)
                IN  IF num.ok
                    THEN tokenize_from(chars, stop2, Append(tokens, TokNumber(num.val)))
                    ELSE TokErr("ParseError")
           [] is_ascii_alphabetic(ch) \/ ch \in GreekChars ->
                LET stop == IF ch \in GreekChars THEN pos + 1 ELSE scan_ident(chars, pos)
                    lower == to_lowercase(SubSeq(chars, pos, stop - 1))
                IN  IF lower = <<"l","o","g">> /\ next_is(chars, stop, "U+208D")
                    THEN LET close == scan_log_base(chars, stop + 1)
                             after == IF close <= Len(chars) THEN close + 1 ELSE close
                         IN  tokenize_from(chars, after,
                                 Append(tokens,
                                        TokIdent(<<"l","o","g",":">>
                                                   \o SubSeq(chars, stop + 1, close - 1))))
                    ELSE tokenize_from(chars, stop, Append(tokens, TokIdent(lower)))
           [] ch = "U+221A" -> push(TokIdent(<<"s","q","r","t">>), 1)
           [] OTHER -> TokErr("ParseError")

tokenize(input) == tokenize_from(input, 1, <<>>)

\* ------------------------------------------------------------------------
\* AST
\* ------------------------------------------------------------------------

\* The seven cases of Ast, as records of one shape.
AstNumber(v) == [t |-> "Number", op |-> "", name |-> <<>>, val |-> v, kids |-> <<>>]
AstVar(n) == [t |-> "Var", op |-> "", name |-> n, val |-> RZero, kids |-> <<>>]
AstBinOp(op, l, r) == [t |-> "BinOp", op |-> op, name |-> <<>>, val |-> RZero, kids |-> <<l, r>>]
AstUnaryNeg(inner) == [t |-> "UnaryNeg", op |-> "", name |-> <<>>, val |-> RZero, kids |-> <<inner>>]
AstUnaryNot(inner) == [t |-> "UnaryNot", op |-> "", name |-> <<>>, val |-> RZero, kids |-> <<inner>>]
AstFactorial(inner) == [t |-> "Factorial", op |-> "", name |-> <<>>, val |-> RZero, kids |-> <<inner>>]
AstCall(n, args) == [t |-> "Call", op |-> "", name |-> n, val |-> RZero, kids |-> args]

BinOps == {"Add", "Sub", "Mul", "Div", "Pow", "Mod",
           "Eq", "Ne", "Lt", "Le", "Gt", "Ge", "And", "Or"}

\* ------------------------------------------------------------------------
\* Parser
\* ------------------------------------------------------------------------

\* Result<Ast, ExathError> together with the token position reached;
\* for parse_arg_list the nodes parsed are in args.
POk(node, pos) == [ok |-> TRUE, kind |-> "Ok", node |-> node, args |-> <<>>, pos |-> pos]
PArgs(args, pos) == [ok |-> TRUE, kind |-> "Ok", node |-> AstNumber(RZero), args |-> args, pos |-> pos]
PErr(k) == [ok |-> FALSE, kind |-> k, node |-> AstNumber(RZero), args |-> <<>>, pos |-> 0]

tok_is(tokens, pos, t) == pos <= Len(tokens) /\ tokens[pos].t = t

FunctionNames ==
    {"sin", "cos", "tan", "cot", "sec", "csc",
     "asin", "acos", "atan", "acot", "asec", "acsc",
     "sinh", "cosh", "tanh", "coth", "sech", "csch",
     "asinh", "acosh", "atanh", "acoth", "asech", "acsch",
     "ln", "lg", "log", "exp",
     "sqrt", "cbrt", "abs",
     "floor", "ceil", "round", "trunc", "frac",
     "sign", "sgn", "arg", "conj", "real", "imag",
     "deg", "rad",
     "if", "min", "max", "clamp", "gcd", "lcm"}

starts_with_log_colon(name) == Len(name) >= 4 /\ SubSeq(name, 1, 4) = <<"l","o","g",":">>

is_function(name) == Join(name) \in FunctionNames \/ starts_with_log_colon(name)

\* The constants e, pi and phi are irrational; the model gives each the
\* rational below, which stands for the f64 the parser puts in the tree.
ConstE == <<19, 7>>
ConstPi == <<22, 7>>
ConstPhi == <<13, 8>>

resolve_const_or_var(name) ==
    LET n == Join(name)
    IN  CASE n = "e" -> POk(AstNumber(ConstE), 0)
          [] n \in {"pi", "U+03C0"} -> POk(AstNumber(ConstPi), 0)
          [] n \in {"phi", "U+03D5"} -> POk(AstNumber(ConstPhi), 0)
          [] n \in {"U+03B5", "epsilon"} -> POk(AstNumber(ConstE), 0)
          [] n = "mod" -> PErr("ParseError")
          [] OTHER -> POk(AstVar(name), 0)

RECURSIVE parse_expr(_, _), parse_or(_, _), parse_or_loop(_, _, _),
          parse_and(_, _), parse_and_loop(_, _, _),
          parse_comparison(_, _), parse_comparison_loop(_, _, _),
          parse_add(_, _), parse_add_loop(_, _, _),
          parse_term(_, _), parse_term_loop(_, _, _),
          parse_power(_, _), parse_factorials(_, _, _),
          parse_unary(_, _), parse_primary(_, _),
          parse_arg_list(_, _), parse_arg_list_loop(_, _, _)

parse_expr(tokens, pos) == parse_or(tokens, pos)

parse_or_loop(tokens, left, pos) ==
    IF tok_is(tokens, pos, "OrOr")
    THEN Bind(parse_and(tokens, pos + 1), LAMBDA right :
           IF ~right.ok THEN right
           ELSE parse_or_loop(tokens, AstBinOp("Or", left, right.node), right.pos))
    ELSE POk(left, pos)

parse_or(tokens, pos) ==
    Bind(parse_and(tokens, pos), LAMBDA left :
      IF ~left.ok THEN left ELSE parse_or_loop(tokens, left.node, left.pos))

parse_and_loop(tokens, left, pos) ==
    IF tok_is(tokens, pos, "AndAnd")
    THEN Bind(parse_comparison(tokens, pos + 1), LAMBDA right :
           IF ~right.ok THEN right
           ELSE parse_and_loop(tokens, AstBinOp("And", left, right.node), right.pos))
    ELSE POk(left, pos)

parse_and(tokens, pos) ==
    Bind(parse_comparison(tokens, pos), LAMBDA left :
      IF ~left.ok THEN left ELSE parse_and_loop(tokens, left.node, left.pos))

comparison_op(t) ==
    CASE t = "EqEq" -> "Eq" [] t = "Ne" -> "Ne" [] t = "Lt" -> "Lt"
      [] t = "Le" -> "Le" [] t = "Gt" -> "Gt" [] t = "Ge" -> "Ge"
      [] OTHER -> ""

parse_comparison_loop(tokens, left, pos) ==
    IF pos <= Len(tokens) /\ comparison_op(tokens[pos].t) # ""
    THEN Bind(parse_add(tokens, pos + 1), LAMBDA right :
           IF ~right.ok THEN right
           ELSE parse_comparison_loop(tokens,
                    AstBinOp(comparison_op(tokens[pos].t), left, right.node), right.pos))
    ELSE POk(left, pos)

parse_comparison(tokens, pos) ==
    Bind(parse_add(tokens, pos), LAMBDA left :
      IF ~left.ok THEN left ELSE parse_comparison_loop(tokens, left.node, left.pos))

\* Variant: the right operand of + and - takes the rest of the sum, which
\* groups a chain to the right.
parse_add_loop_right(tokens, left, pos) ==
    IF tok_is(tokens, pos, "Plus") \/ tok_is(tokens, pos, "Minus")
    THEN Bind(parse_add(tokens, pos + 1), LAMBDA right :
           IF ~right.ok THEN right
           ELSE POk(AstBinOp(IF tokens[pos].t = "Plus" THEN "Add" ELSE "Sub",
                             left, right.node), right.pos))
    ELSE POk(left, pos)

parse_add_loop(tokens, left, pos) ==
    IF tok_is(tokens, pos, "Plus") \/ tok_is(tokens, pos, "Minus")
    THEN Bind(parse_term(tokens, pos + 1), LAMBDA right :
           IF ~right.ok THEN right
           ELSE parse_add_loop(tokens,
                    AstBinOp(IF tokens[pos].t = "Plus" THEN "Add" ELSE "Sub",
                             left, right.node), right.pos))
    ELSE POk(left, pos)

parse_add(tokens, pos) ==
    Bind(parse_term(tokens, pos), LAMBDA left :
      IF ~left.ok THEN left ELSE parse_add_loop(tokens, left.node, left.pos))

\* Variant: the right operand of an implicit multiplication is a unary-level
\* operand, not a power.
parse_term_loop_unary(tokens, left, pos) ==
    IF tok_is(tokens, pos, "Mul") \/ tok_is(tokens, pos, "Div") \/ tok_is(tokens, pos, "Mod")
    THEN Bind(parse_power(tokens, pos + 1), LAMBDA right :
           IF ~right.ok THEN right
           ELSE parse_term_loop(tokens, AstBinOp(tokens[pos].t, left, right.node), right.pos))
    ELSE IF tok_is(tokens, pos, "LParen") \/ tok_is(tokens, pos, "Ident")
    THEN Bind(parse_unary(tokens, pos), LAMBDA right :
           IF ~right.ok THEN right
           ELSE parse_term_loop(tokens, AstBinOp("Mul", left, right.node), right.pos))
    ELSE POk(left, pos)

\* The right operand of a multiplication: after '*', '/' or '%' the token is
\* consumed; before '(' or an identifier (implicit multiplication) it is not.
parse_term_loop(tokens, left, pos) ==
    IF tok_is(tokens, pos, "Mul") \/ tok_is(tokens, pos, "Div") \/ tok_is(tokens, pos, "Mod")
    THEN Bind(parse_power(tokens, pos + 1), LAMBDA right :
           IF ~right.ok THEN right
           ELSE parse_term_loop(tokens, AstBinOp(tokens[pos].t, left, right.node), right.pos))
    ELSE IF tok_is(tokens, pos, "LParen") \/ tok_is(tokens, pos, "Ident")
    THEN Bind(parse_power(tokens, pos), LAMBDA right :
           IF ~right.ok THEN right
           ELSE parse_term_loop(tokens, AstBinOp("Mul", left, right.node), right.pos))
    ELSE POk(left, pos)

parse_term(tokens, pos) ==
    Bind(parse_power(tokens, pos), LAMBDA left :
      IF ~left.ok THEN left ELSE parse_term_loop(tokens, left.node, left.pos))

parse_factorials(tokens, result, pos) ==
    IF tok_is(tokens, pos, "Factorial")
    THEN parse_factorials(tokens, AstFactorial(result), pos + 1)
    ELSE POk(result, pos)

\* Variant: the exponent is a unary-level operand, so a second ^ is not
\* taken into it.
parse_power_flat(tokens, pos) ==
    Bind(parse_unary(tokens, pos), LAMBDA base :
      IF ~base.ok THEN base
      ELSE IF tok_is(tokens, base.pos, "Pow")
      THEN Bind(parse_unary(tokens, base.pos + 1), LAMBDA exponent :
             IF ~exponent.ok THEN exponent
             ELSE POk(AstBinOp("Pow", base.node, exponent.node), exponent.pos))
      ELSE parse_factorials(tokens, base.node, base.pos))

parse_power(tokens, pos) ==
    Bind(parse_unary(tokens, pos), LAMBDA base :
      IF ~base.ok THEN base
      ELSE IF tok_is(tokens, base.pos, "Pow")
      THEN Bind(parse_power(tokens, base.pos + 1), LAMBDA exponent :
             IF ~exponent.ok THEN exponent
             ELSE POk(AstBinOp("Pow", base.node, exponent.node), exponent.pos))
      ELSE parse_factorials(tokens, base.node, base.pos))

parse_unary(tokens, pos) ==
    IF tok_is(tokens, pos, "Minus")
    THEN Bind(parse_primary(tokens, pos + 1), LAMBDA inner :
           IF ~inner.ok THEN inner ELSE POk(AstUnaryNeg(inner.node), inner.pos))
    ELSE IF tok_is(tokens, pos, "Plus")
    THEN parse_primary(tokens, pos + 1)
    ELSE IF tok_is(tokens, pos, "Factorial")
    THEN Bind(parse_primary(tokens, pos + 1), LAMBDA inner :
           IF ~inner.ok THEN inner ELSE POk(AstUnaryNot(inner.node), inner.pos))
    ELSE parse_primary(tokens, pos)

parse_primary(tokens, pos) ==
    IF pos > Len(tokens) THEN PErr("ParseError")
    ELSE IF tokens[pos].t = "Number" THEN POk(AstNumber(tokens[pos].val), pos + 1)
    ELSE IF tokens[pos].t = "Ident"
    THEN IF tok_is(tokens, pos + 1, "LParen")
         THEN Bind(parse_arg_list(tokens, pos + 2), LAMBDA args :
                IF ~args.ok THEN args
                ELSE IF tok_is(tokens, args.pos, "RParen")
                THEN POk(AstCall(tokens[pos].name, args.args), args.pos + 1)
                ELSE PErr("ParseError"))
         ELSE IF is_function(tokens[pos].name)
         THEN Bind(parse_unary(tokens, pos + 1), LAMBDA arg :
                IF ~arg.ok THEN arg
                ELSE POk(AstCall(tokens[pos].name, <<arg.node>>), arg.pos))
         ELSE Bind(resolve_const_or_var(tokens[pos].name), LAMBDA r :
                IF r.ok THEN POk(r.node, pos + 1) ELSE r)
    ELSE IF tokens[pos].t = "LParen"
    THEN Bind(parse_expr(tokens, pos + 1), LAMBDA inner :
           IF ~inner.ok THEN inner
           ELSE IF tok_is(tokens, inner.pos, "RParen")
           THEN POk(inner.node, inner.pos + 1)
           ELSE PErr("ParseError"))
    ELSE PErr("ParseError")

parse_arg_list_loop(tokens, args, pos) ==
    IF tok_is(tokens, pos, "Comma")
    THEN Bind(parse_expr(tokens, pos + 1), LAMBDA next :
           IF ~next.ok THEN next
           ELSE parse_arg_list_loop(tokens, Append(args, next.node), next.pos))
    ELSE PArgs(args, pos)

parse_arg_list(tokens, pos) ==
    IF tok_is(tokens, pos, "RParen") THEN PArgs(<<>>, pos)
    ELSE Bind(parse_expr(tokens, pos), LAMBDA first :
           IF ~first.ok THEN first
           ELSE parse_arg_list_loop(tokens, <<first.node>>, first.pos))

parse_str(input) ==
    Bind(tokenize(input), LAMBDA toks :
      IF ~toks.ok THEN PErr(toks.kind)
      ELSE Bind(parse_expr(toks.tokens, 1), LAMBDA node :
             IF ~node.ok THEN node
             ELSE IF node.pos <= Len(toks.tokens) THEN PErr("ParseError")
             ELSE node))

\* ------------------------------------------------------------------------
\* Built-in functions
\* ------------------------------------------------------------------------

AngleModes == {"Deg", "Rad", "Grad"}

\* f64::floor
RFloor(a) ==
    IF a[2] = 1 THEN a
    ELSE IF a[1] >= 0 THEN R(a[1] \div a[2]) ELSE R(-((-a[1]) \div a[2]) - 1)

\* The single-argument functions whose value is not rational in general.
TranscendentalNames ==
    {"sin", "cos", "tan", "cot", "asin", "acos", "atan", "acot",
     "sinh", "cosh", "tanh", "coth", "asinh", "acosh", "atanh", "acoth",
     "sec", "csc", "asec", "acsc", "sech", "csch", "asech", "acsch",
     "exp", "ln", "lg", "log", "sqrt", "cbrt", "arg", "deg", "rad"}

\* factorial(n) for a natural n, stopping when the product leaves the
\* modelled range
RECURSIVE FactNat(_)
FactNat(n) ==
    IF n <= 1 THEN 1
    ELSE LET rest == FactNat(n - 1)
         IN  IF rest > MaxNum THEN rest ELSE rest * n

factorial(n) ==
    IF n[1] < 0 \/ ~RIsInt(n) THEN Err("DomainError")
    ELSE IF n[1] > 170 THEN Err("OutOfModel")   \* +infinity
    ELSE Ok(CxReal(R(FactNat(n[1]))))

apply_function(name, z, angle_mode) ==
    LET n == Join(name)
        real_only(v) == IF ~is_real(z) THEN Err("ArgumentType") ELSE Ok(CxReal(v))
    IN  CASE n = "abs" -> IF is_real(z) THEN Ok(CxReal(RAbs(z.re))) ELSE Err("OutOfModel")
          [] n = "floor" -> real_only(RFloor(z.re))
          [] n = "ceil" -> real_only(RNeg(RFloor(RNeg(z.re))))
          [] n = "trunc" -> real_only(RTrunc(z.re))
          [] n = "frac" -> real_only(RSub(z.re, RTrunc(z.re)))
          [] n = "round" -> real_only(IF z.re[1] >= 0
                                      THEN RFloor(RAdd(z.re, <<1, 2>>))
                                      ELSE RNeg(RFloor(RAdd(RNeg(z.re), <<1, 2>>))))
          [] n \in {"sign", "sgn"} ->
                real_only(IF z.re[1] < 0 THEN R(-1) ELSE ROne)
          [] n = "conj" -> Ok(CxOf(z.re, RNeg(z.im)))
          [] n = "real" -> Ok(CxReal(z.re))
          [] n = "imag" -> Ok(CxReal(z.im))
          [] n \in TranscendentalNames -> Err("OutOfModel")
          [] starts_with_log_colon(name) -> Err("OutOfModel")
          [] OTHER -> Err("UndefinedName")

\* ------------------------------------------------------------------------
\* AST evaluator
\* ------------------------------------------------------------------------

\* A value that left the modelled range is no longer followed.
InModel(res) == IF res.ok /\ ~CxInRange(res.val) THEN Err("OutOfModel") ELSE res

Truthy(c) == c.re[1] # 0 \/ c.im[1] # 0
Bool(b) == CxReal(IF b THEN ROne ELSE RZero)

\* cmp_op with the comparison of the operator named
cmp_op(op, left, right) ==
    IF ~is_real(left) \/ ~is_real(right) THEN Err("ArgumentType")
    ELSE LET a == left.re
             b == right.re
         IN  \* |a - b| < 1e-12 is a = b on the modelled values
             CASE op = "Eq" -> Ok(Bool(a = b))
               [] op = "Ne" -> Ok(Bool(a # b))
               [] op = "Lt" -> Ok(Bool(RLt(a, b)))
               [] op = "Le" -> Ok(Bool(RLe(a, b)))
               [] op = "Gt" -> Ok(Bool(RLt(b, a)))
               [] op = "Ge" -> Ok(Bool(RLe(b, a)))

\* to_integer: the argument is finite here; a non-integer is further than
\* 1e-9 from its rounding, and the modelled range lies within 2^53.
to_integer(x) == IF ~RIsInt(x) THEN Err("ArgumentType") ELSE Ok(CxReal(x))

\* gcd of eval.rs on i64 values
RECURSIVE gcd(_, _)
gcd(a, b) == IF b = 0 THEN a ELSE gcd(b, a % b)

RECURSIVE eval_ast(_, _, _, _, _), eval_call(_, _, _, _, _, _),
          eval_real_arg(_, _, _, _, _), eval_int_arg(_, _, _, _, _),
          bind_params(_, _, _, _, _, _, _, _),
          fold_best(_, _, _, _, _, _, _, _),
          eval_if(_, _, _, _, _)

\* The value of a binary operator on the values of its two operands
eval_binop(op, left, right) ==
    CASE op \in {"And", "Or"} -> Ok(Bool(Truthy(right)))
      [] op = "Add" -> InModel(Ok(CxAdd(left, right)))
      [] op = "Sub" -> InModel(Ok(CxSub(left, right)))
      [] op = "Mul" -> InModel(Ok(CxMul(left, right)))
      [] op = "Div" -> InModel(CxDiv(left, right))
      [] op = "Pow" -> InModel(CxPow(left, right))
      [] op = "Mod" ->
            IF CxIsZero(right) THEN Err("DomainError")
            ELSE IF ~is_real(right) THEN Err("ArgumentType")
            ELSE InModel(Ok(CxReal(RRem(left.re, right.re))))
      [] OTHER -> cmp_op(op, left, right)

\* Variant: the right operand of && and || is always evaluated.
short_circuit_never(op, left) == FALSE

\* The left operand decides && (it is 0+0i) or || (it is not): the operator
\* returns without evaluating the right one
short_circuit(op, left) ==
    \/ op = "And" /\ ~Truthy(left)
    \/ op = "Or" /\ Truthy(left)

eval_ast(ast, vars, fns, angle_mode, depth) ==
    CASE ast.t = "Number" -> Ok(CxReal(ast.val))
      [] ast.t = "Var" ->
            IF ast.name \in DOMAIN vars THEN Ok(vars[ast.name]) ELSE Err("UndefinedName")
      [] ast.t = "Call" -> eval_call(ast.name, ast.kids, vars, fns, angle_mode, depth)
      [] OTHER ->
            Bind(eval_ast(ast.kids[1], vars, fns, angle_mode, depth), LAMBDA left :
              IF ~left.ok THEN left
              ELSE CASE ast.t = "UnaryNeg" -> Ok(CxNeg(left.val))
                     [] ast.t = "UnaryNot" -> Ok(Bool(CxIsZero(left.val)))
                     [] ast.t = "Factorial" ->
                           IF ~is_real(left.val) THEN Err("ArgumentType")
                           ELSE InModel(factorial(left.val.re))
                     [] ast.t = "BinOp" ->
                           IF short_circuit(ast.op, left.val) THEN Ok(Bool(ast.op = "Or"))
                           ELSE Bind(eval_ast(ast.kids[2], vars, fns, angle_mode, depth),
                                     LAMBDA right :
                                       IF ~right.ok THEN right
                                       ELSE eval_binop(ast.op, left.val, right.val)))

\* Variant: each argument is evaluated in the environment of the call as
\* bound so far, not in the caller's.
bind_params_in_call_vars(params, args, i, vars, call_vars, fns, angle_mode, depth) ==
    IF i > Len(params) THEN [ok |-> TRUE, kind |-> "Ok", val |-> CxZero, env |-> call_vars]
    ELSE Bind(eval_ast(args[i], call_vars, fns, angle_mode, depth), LAMBDA value :
           IF ~value.ok
           THEN [ok |-> FALSE, kind |-> value.kind, val |-> CxZero, env |-> call_vars]
           ELSE bind_params(params, args, i + 1, vars,
                    [n \in DOMAIN call_vars \cup {params[i]} |->
                        IF n = params[i] THEN value.val ELSE call_vars[n]],
                    fns, angle_mode, depth))

\* Variant: the last argument is evaluated before the others.
bind_params_last_first(params, args, i, vars, call_vars, fns, angle_mode, depth) ==
    IF i > Len(params) THEN [ok |-> TRUE, kind |-> "Ok", val |-> CxZero, env |-> call_vars]
    ELSE Bind(eval_ast(args[Len(params)], vars, fns, angle_mode, depth), LAMBDA final :
           IF ~final.ok
           THEN [ok |-> FALSE, kind |-> final.kind, val |-> CxZero, env |-> call_vars]
           ELSE Bind(eval_ast(args[i], vars, fns, angle_mode, depth), LAMBDA value :
                  IF ~value.ok
                  THEN [ok |-> FALSE, kind |-> value.kind, val |-> CxZero, env |-> call_vars]
                  ELSE bind_params(params, args, i + 1, vars,
                           [n \in DOMAIN call_vars \cup {params[i]} |->
                               IF n = params[i] THEN value.val ELSE call_vars[n]],
                           fns, angle_mode, depth)))

\* The loop of eval_call over params.iter().zip(args.iter()): each argument
\* is evaluated in vars (the caller's) and bound in call_vars.
bind_params(params, args, i, vars, call_vars, fns, angle_mode, depth) ==
    IF i > Len(params) THEN [ok |-> TRUE, kind |-> "Ok", val |-> CxZero, env |-> call_vars]
    ELSE Bind(eval_ast(args[i], vars, fns, angle_mode, depth), LAMBDA value :
           IF ~value.ok
           THEN [ok |-> FALSE, kind |-> value.kind, val |-> CxZero, env |-> call_vars]
           ELSE bind_params(params, args, i + 1, vars,
                    [n \in DOMAIN call_vars \cup {params[i]} |->
                        IF n = params[i] THEN value.val ELSE call_vars[n]],
                    fns, angle_mode, depth))

eval_real_arg(ast, vars, fns, angle_mode, depth) ==
    Bind(eval_ast(ast, vars, fns, angle_mode, depth), LAMBDA value :
      IF ~value.ok THEN value
      ELSE IF ~is_real(value.val) THEN Err("ArgumentType")
      ELSE Ok(CxReal(value.val.re)))

\* Variant: the first argument is returned whatever the others are.
fold_best_keeps_first(want_min, args, i, best, vars, fns, angle_mode, depth) ==
    Ok(CxReal(best))

\* The loop of min and max over args[1..]
fold_best(want_min, args, i, best, vars, fns, angle_mode, depth) ==
    IF i > Len(args) THEN Ok(CxReal(best))
    ELSE Bind(eval_real_arg(args[i], vars, fns, angle_mode, depth), LAMBDA value :
           IF ~value.ok THEN value
           ELSE fold_best(want_min, args, i + 1,
                          IF (IF want_min THEN RLt(value.val.re, best)
                                          ELSE RLt(best, value.val.re))
                          THEN value.val.re ELSE best,
                          vars, fns, angle_mode, depth))

\* clamp on three real values: value.max(lower).min(upper)
clamp(value, lower, upper) ==
    IF RLt(upper, IF RLt(value, lower) THEN lower ELSE value) THEN upper
    ELSE IF RLt(value, lower) THEN lower ELSE value

\* Variant: lcm is the absolute value of the product.
gcd_lcm_of_product(n, ai, bi) ==
    IF n = "gcd" THEN Ok(CxReal(R(gcd(Abs(ai), Abs(bi)))))
    ELSE IF gcd(Abs(ai), Abs(bi)) = 0 THEN Ok(CxReal(RZero))
    ELSE InModel(Ok(CxReal(R(Abs(ai * bi)))))

\* gcd and lcm on two i64 values
gcd_lcm(n, ai, bi) ==
    IF n = "gcd" THEN Ok(CxReal(R(gcd(Abs(ai), Abs(bi)))))
    ELSE IF gcd(Abs(ai), Abs(bi)) = 0 THEN Ok(CxReal(RZero))
    ELSE InModel(Ok(CxReal(R(Abs((ai \div gcd(Abs(ai), Abs(bi))) * bi)))))

\* eval_real_arg followed by to_integer
eval_int_arg(ast, vars, fns, angle_mode, depth) ==
    Bind(eval_real_arg(ast, vars, fns, angle_mode, depth), LAMBDA r :
      IF ~r.ok THEN r ELSE to_integer(r.val.re))

\* Variant: `if` evaluates both values before it chooses one.
eval_if_both_values(args, vars, fns, angle_mode, depth) ==
    Bind(eval_ast(args[1], vars, fns, angle_mode, depth), LAMBDA condition :
      IF ~condition.ok THEN condition
      ELSE Bind(eval_ast(args[2], vars, fns, angle_mode, depth), LAMBDA true_value :
             IF ~true_value.ok THEN true_value
             ELSE Bind(eval_ast(args[3], vars, fns, angle_mode, depth), LAMBDA false_value :
                    IF ~false_value.ok THEN false_value
                    ELSE IF Truthy(condition.val) THEN true_value ELSE false_value)))

\* The arm "if" of eval_call: the condition, then args[1] when it is not
\* 0+0i and args[2] otherwise
eval_if(args, vars, fns, angle_mode, depth) ==
    Bind(eval_ast(args[1], vars, fns, angle_mode, depth), LAMBDA condition :
      IF ~condition.ok THEN condition
      ELSE eval_ast(args[IF Truthy(condition.val) THEN 2 ELSE 3],
                    vars, fns, angle_mode, depth))

\* Variant: a stored function that has the name of a built-in is not looked
\* up.
is_user_fn_unless_builtin(name, fns) == name \in DOMAIN fns /\ Join(name) \notin FunctionNames

\* fns.get(name) is Some: the first test of eval_call, before the arms of the
\* built-ins
is_user_fn(name, fns) == name \in DOMAIN fns

\* Variant: `if` takes a condition and one value.
wrong_arg_count_if_of_two(name, n, fns) ==
    IF name \in DOMAIN fns THEN n # Len(fns[name].params)
    ELSE CASE Join(name) = "if" -> n # 2
           [] Join(name) = "clamp" -> n # 3
           [] Join(name) \in {"min", "max"} -> n = 0
           [] Join(name) \in {"gcd", "lcm"} -> n # 2
           [] OTHER -> n # 1

\* Variant: a name that is neither stored nor built-in takes one argument
\* or more.
wrong_arg_count_unknown_of_many(name, n, fns) ==
    IF name \in DOMAIN fns THEN n # Len(fns[name].params)
    ELSE CASE Join(name) \in {"if", "clamp"} -> n # 3
           [] Join(name) \in {"min", "max"} -> n = 0
           [] Join(name) \in {"gcd", "lcm"} -> n # 2
           [] Join(name) \in FunctionNames -> n # 1
           [] OTHER -> n = 0

\* The test on args.len() that opens every arm of eval_call: a stored
\* function wants as many arguments as it has parameters, `if` and `clamp`
\* three, `gcd` and `lcm` two, `min` and `max` at least one, any other name
\* exactly one.
wrong_arg_count(name, n, fns) ==
    IF is_user_fn(name, fns) THEN n # Len(fns[name].params)
    ELSE CASE Join(name) \in {"if", "clamp"} -> n # 3
           [] Join(name) \in {"min", "max"} -> n = 0
           [] Join(name) \in {"gcd", "lcm"} -> n # 2
           [] OTHER -> n # 1

\* eval_call: every arm tests the number of arguments before it evaluates
\* any of them.
eval_call(name, args, vars, fns, angle_mode, depth) ==
    IF wrong_arg_count(name, Len(args), fns) THEN Err("ArgumentCount")
    ELSE IF is_user_fn(name, fns)
    THEN IF depth >= MaxCallDepth THEN Err("StackOverflow")
         ELSE Bind(bind_params(fns[name].params, args, 1, vars, vars,
                               fns, angle_mode, depth), LAMBDA bound :
                IF ~bound.ok THEN Err(bound.kind)
                ELSE eval_ast(fns[name].body, bound.env, fns, angle_mode, depth + 1))
    ELSE CASE Join(name) = "if" -> eval_if(args, vars, fns, angle_mode, depth)
           [] Join(name) \in {"min", "max"} ->
                Bind(eval_real_arg(args[1], vars, fns, angle_mode, depth), LAMBDA first :
                       IF ~first.ok THEN first
                       ELSE fold_best(Join(name) = "min", args, 2, first.val.re,
                                      vars, fns, angle_mode, depth))
           [] Join(name) = "clamp" ->
                Bind(eval_real_arg(args[1], vars, fns, angle_mode, depth), LAMBDA value :
                       IF ~value.ok THEN value
                       ELSE Bind(eval_real_arg(args[2], vars, fns, angle_mode, depth),
                                 LAMBDA lower :
                              IF ~lower.ok THEN lower
                              ELSE Bind(eval_real_arg(args[3], vars, fns, angle_mode, depth),
                                        LAMBDA upper :
                                     IF ~upper.ok THEN upper
                                     ELSE Ok(CxReal(clamp(value.val.re, lower.val.re,
                                                          upper.val.re))))))
           [] Join(name) \in {"gcd", "lcm"} ->
                Bind(eval_int_arg(args[1], vars, fns, angle_mode, depth), LAMBDA a :
                       IF ~a.ok THEN a
                       ELSE Bind(eval_int_arg(args[2], vars, fns, angle_mode, depth),
                                 LAMBDA b :
                              IF ~b.ok THEN b
                              ELSE gcd_lcm(Join(name), a.val.re[1], b.val.re[1])))
           [] OTHER ->
                Bind(eval_ast(args[1], vars, fns, angle_mode, depth), LAMBDA value :
                       IF ~value.ok THEN value
                       ELSE InModel(apply_function(name, value.val, angle_mode)))

\* ------------------------------------------------------------------------
\* Stateless entry points
\* ------------------------------------------------------------------------

\* Result<CalcResult, ExathError>
CalcOk(c) == [ok |-> TRUE, kind |-> "Ok", val |-> c]
CalcErr(k) == [ok |-> FALSE, kind |-> k, val |-> CalcReal(RZero)]

EmptyMap == [n \in {} |-> CxZero]

evaluate_with_vars_and_fns(expr, angle_mode, vars, fns) ==
    Bind(parse_str(expr), LAMBDA ast :
      IF ~ast.ok THEN CalcErr(ast.kind)
      ELSE Bind(eval_ast(ast.node, vars, fns, angle_mode, 0), LAMBDA result :
             IF ~result.ok THEN CalcErr(result.kind)
             ELSE CalcOk(to_calc_result(result.val))))

evaluate_with_vars(expr, angle_mode, vars) ==
    evaluate_with_vars_and_fns(expr, angle_mode, vars, EmptyMap)

evaluate_complex(expr, angle_mode) == evaluate_with_vars(expr, angle_mode, EmptyMap)

\* evaluate: Ok(f64) is given as the CalcResult Real(value)
evaluate(expr, angle_mode) ==
    Bind(evaluate_complex(expr, angle_mode), LAMBDA r :
      IF r.ok /\ r.val.tag = "Complex" THEN CalcErr("ComplexResult") ELSE r)

\* ------------------------------------------------------------------------
\* Static analysis
\* ------------------------------------------------------------------------

\* Variant: a text is valid when it evaluates.
is_valid_by_evaluation(expr) == evaluate_complex(expr, "Rad").ok

\* is_valid: parse_str(expr).is_ok()
is_valid(expr) == parse_str(expr).ok

\* Variant: the list without its last group.
supported_functions_single_argument ==
    <<"sin", "cos", "tan", "cot", "sec", "csc",
      "asin", "acos", "atan", "acot", "asec", "acsc",
      "sinh", "cosh", "tanh", "coth", "sech", "csch",
      "asinh", "acosh", "atanh", "acoth", "asech", "acsch",
      "exp", "ln", "lg", "log",
      "sqrt", "cbrt",
      "abs", "arg", "conj", "real", "imag",
      "floor", "ceil", "round", "trunc", "frac",
      "sign", "sgn",
      "deg", "rad">>

\* supported_functions: the static list of names
supported_functions ==
    <<"sin", "cos", "tan", "cot", "sec", "csc",
      "asin", "acos", "atan", "acot", "asec", "acsc",
      "sinh", "cosh", "tanh", "coth", "sech", "csch",
      "asinh", "acosh", "atanh", "acoth", "asech", "acsch",
      "exp", "ln", "lg", "log",
      "sqrt", "cbrt",
      "abs", "arg", "conj", "real", "imag",
      "floor", "ceil", "round", "trunc", "frac",
      "sign", "sgn",
      "deg", "rad",
      "if", "min", "max", "clamp", "gcd", "lcm">>

\* ------------------------------------------------------------------------
\* Numerical methods
\* ------------------------------------------------------------------------

\* An i64 written as base * 2^63 + off with a small off: the values near
\* zero (base 0), near i64::MIN (base -1, off >= 0) and near i64::MAX
\* (base 1, off < 0).  A difference of two such values has a base in -2..2.
I64(base, off) == [base |-> base, off |-> off]
I64Min == I64(-1, 0)
I64Max == I64(1, -1)

\* The value base * 2^63 + off lies within i64
i64_fits(d) ==
    \/ d.base = 0
    \/ d.base = 1 /\ d.off < 0
    \/ d.base = -1 /\ d.off >= 0

\* a - b as a mathematical integer
i64_diff(a, b) == I64(a.base - b.base, a.off - b.off)

\* The i64 a wrapping operation leaves: the value modulo 2^64
i64_wrap(d) ==
    IF i64_fits(d) THEN d
    ELSE IF d.base >= 1 THEN I64(d.base - 2, d.off)
    ELSE I64(d.base + 2, d.off)

\* d > n for an i64 d and a small n
i64_gt(d, n) == d.base = 1 \/ (d.base = 0 /\ d.off > n)

\* a < b on i64
i64_lt(a, b) == a.base < b.base \/ (a.base = b.base /\ a.off < b.off)

\* k as f64, for a k near zero
i64_as_f64(k) == R(k.off)

MAX_TERMS == 10000000

\* Result<f64, ExathError>, the outcome "Panic" of a build with overflow
\* checks included, together with the number of evaluations of the
\* expression made on the way
NumOk(v, evals) == [ok |-> TRUE, kind |-> "Ok", val |-> v, evals |-> evals]
NumErr(k, evals) == [ok |-> FALSE, kind |-> k, val |-> RZero, evals |-> evals]

\* The variables an expression reads
RECURSIVE AstVars(_)
AstVars(ast) ==
    IF ast.t = "Var" THEN {ast.name}
    ELSE UNION { AstVars(ast.kids[i]) : i \in 1..Len(ast.kids) }

\* eval_at: the expression with the one variable var bound to x
eval_at(ast, var, x, angle_mode) ==
    Bind(eval_ast(ast, [n \in {var} |-> CxReal(x)], EmptyMap, angle_mode, 0),
         LAMBDA result :
           IF ~result.ok THEN result
           ELSE IF ~is_real(result.val) THEN Err("ComplexResult")
           ELSE InModel(result))

\* k as f64 is a modelled number
i64_in_model(k) == k.base = 0 /\ RInRange(i64_as_f64(k))

\* eval_at at k as f64.  Where k as f64 is no modelled number, the
\* evaluation is followed only when the expression does not read the
\* variable.
eval_at_i64(ast, var, k, angle_mode) ==
    IF ~i64_in_model(k) /\ var \in AstVars(ast) THEN Err("OutOfModel")
    ELSE eval_at(ast, var, IF i64_in_model(k) THEN i64_as_f64(k) ELSE RZero, angle_mode)

\* for k in from..=to: the accumulator after the terms from k on.  At most
\* MaxTerms evaluations are followed.
RECURSIVE range_loop(_, _, _, _, _, _, _, _)
range_loop(is_sum, ast, var, k, to, acc, evals, angle_mode) ==
    IF evals >= MaxTerms THEN NumErr("OutOfModel", evals)
    ELSE Bind(eval_at_i64(ast, var, k, angle_mode), LAMBDA value :
           IF ~value.ok THEN NumErr(value.kind, evals + 1)
           ELSE Bind(IF is_sum THEN RAdd(acc, value.val.re) ELSE RMul(acc, value.val.re),
                     LAMBDA next :
                  IF ~RInRange(next) THEN NumErr("OutOfModel", evals + 1)
                  ELSE IF k = to THEN NumOk(next, evals + 1)
                  ELSE range_loop(is_sum, ast, var, I64(k.base, k.off + 1), to,
                                  next, evals + 1, angle_mode)))

\* The body sum and prod share.  `to - from` overflows when the difference
\* does not fit i64: a build with overflow checks panics, a build without
\* them goes on with the wrapped difference.
range_fold(is_sum, expr, var, from, to, angle_mode, overflow_checks) ==
    IF ~i64_fits(i64_diff(to, from)) /\ overflow_checks THEN NumErr("Panic", 0)
    ELSE IF i64_gt(i64_wrap(i64_diff(to, from)), MAX_TERMS) THEN NumErr("RangeTooLarge", 0)
    ELSE Bind(parse_str(expr), LAMBDA ast :
           IF ~ast.ok THEN NumErr(ast.kind, 0)
           ELSE IF i64_lt(to, from) THEN NumOk(IF is_sum THEN RZero ELSE ROne, 0)
           ELSE range_loop(is_sum, ast.node, var, from, to,
                           IF is_sum THEN RZero ELSE ROne, 0, angle_mode))

sum(expr, var, from, to, angle_mode, overflow_checks) ==
    range_fold(TRUE, expr, var, from, to, angle_mode, overflow_checks)

prod(expr, var, from, to, angle_mode, overflow_checks) ==
    range_fold(FALSE, expr, var, from, to, angle_mode, overflow_checks)

\* const N of integrate
SimpsonN == 1000

\* Variant: 4 for the even points, 2 for the odd ones.
simpson_weight_even_four(i) == IF i % 2 = 0 THEN 4 ELSE 2

\* if i % 2 == 0 { 2.0 * value } else { 4.0 * value }
simpson_weight(i) == IF i % 2 = 0 THEN 2 ELSE 4

\* (b - a) / N as f64
simpson_step(a, b) == RDiv(RSub(b, a), R(SimpsonN))

\* for i in 1..N: total after the points i, i + 1, ..., stop - 1
RECURSIVE simpson_run(_, _, _, _, _, _, _, _)
simpson_run(ast, var, a, step, i, stop, total, angle_mode) ==
    IF i >= stop \/ ~total.ok THEN total
    ELSE Bind(eval_at(ast, var, RAdd(a, RMul(R(i), step)), angle_mode), LAMBDA value :
           IF ~value.ok THEN NumErr(value.kind, total.evals + 1)
           ELSE simpson_run(ast, var, a, step, i + 1, stop,
                            NumOk(RAdd(total.val, RMul(R(simpson_weight(i)), value.val.re)),
                                  total.evals + 1),
                            angle_mode))

\* for i in 1..N, taken as consecutive runs of 32 points
RECURSIVE simpson_loop(_, _, _, _, _, _, _)
simpson_loop(ast, var, a, step, i, total, angle_mode) ==
    IF i >= SimpsonN \/ ~total.ok THEN total
    ELSE simpson_loop(ast, var, a, step, IF i + 32 < SimpsonN THEN i + 32 ELSE SimpsonN,
                      simpson_run(ast, var, a, step, i,
                                  IF i + 32 < SimpsonN THEN i + 32 ELSE SimpsonN,
                                  total, angle_mode),
                      angle_mode)

\* total * step / 3.0
simpson_result(total, step) ==
    IF ~total.ok THEN total
    ELSE NumOk(RDiv(RMul(total.val, step), R(3)), total.evals)

integrate(expr, var, a, b, angle_mode) ==
    Bind(parse_str(expr), LAMBDA ast :
      IF ~ast.ok THEN NumErr(ast.kind, 0)
      ELSE Bind(eval_at(ast.node, var, a, angle_mode), LAMBDA first :
             IF ~first.ok THEN NumErr(first.kind, 1)
             ELSE Bind(eval_at(ast.node, var, b, angle_mode), LAMBDA final :
                    IF ~final.ok THEN NumErr(final.kind, 2)
                    ELSE simpson_result(
                           simpson_loop(ast.node, var, a, simpson_step(a, b), 1,
                                        NumOk(RAdd(first.val.re, final.val.re), 2),
                                        angle_mode),
                           simpson_step(a, b)))))

\* ------------------------------------------------------------------------
\* Session
\* ------------------------------------------------------------------------

is_identifier(name) ==
    /\ name # <<>>
    /\ is_ascii_alphabetic(name[1])
    /\ \A i \in 1..Len(name) : is_ascii_alphanumeric(name[i]) \/ name[i] = "_"

starts_with(s, c) == s # <<>> /\ s[1] = c

\* str::split(','): the pieces between the commas
RECURSIVE split_comma(_)
split_comma(s) ==
    LET c == find(s, ",")
    IN  IF c = 0 THEN <<s>>
        ELSE <<SubSeq(s, 1, c - 1)>> \o split_comma(SubSeq(s, c + 1, Len(s)))

NoSplit == [some |-> FALSE, name |-> <<>>, params |-> <<>>, rest |-> <<>>]

\* split_fn_def: Some((name, params, body_str)) or None
split_fn_def(line) ==
    LET lparen == find(line, "(")
        name == trim(SubSeq(line, 1, lparen - 1))
        rparen == find(SubSeq(line, lparen, Len(line)), ")") + lparen - 1
        after_paren == trim_start(SubSeq(line, rparen + 1, Len(line)))
        after_eq == trim_start(Tail(after_paren))
        params_str == trim(SubSeq(line, lparen + 1, rparen - 1))
        pieces == split_comma(params_str)
        params == IF params_str = <<>> THEN <<>>
                  ELSE [i \in 1..Len(pieces) |-> trim(pieces[i])]
    IN  IF lparen = 0 THEN NoSplit
        ELSE IF ~is_identifier(name) THEN NoSplit
        ELSE IF rparen < lparen THEN NoSplit
        ELSE IF ~starts_with(after_paren, "=") THEN NoSplit
        ELSE IF starts_with(after_eq, "=") THEN NoSplit
        ELSE IF \E i \in 1..Len(params) : ~is_identifier(params[i]) THEN NoSplit
        ELSE [some |-> TRUE, name |-> name, params |-> params, rest |-> after_eq]

\* Variant: an `=` that is followed by another `=` splits the line too.
split_assignment_at_any_equals(line) ==
    LET hit(i) ==
            /\ line[i] = "="
            /\ (i = 1 \/ line[i - 1] \notin {"!", "<", ">"})
            /\ is_identifier(trim(SubSeq(line, 1, i - 1)))
        hits == { i \in 1..Len(line) : hit(i) }
    IN  IF hits = {} THEN NoSplit
        ELSE LET i == CHOOSE k \in hits : \A j \in hits : k <= j
             IN  [some |-> TRUE, name |-> trim(SubSeq(line, 1, i - 1)),
                  params |-> <<>>, rest |-> trim(SubSeq(line, i + 1, Len(line)))]

\* split_assignment: Some((lhs, rhs)) or None
split_assignment(line) ==
    LET hit(i) ==
            /\ line[i] = "="
            /\ (i = 1 \/ line[i - 1] \notin {"!", "<", ">"})
            /\ (i = Len(line) \/ line[i + 1] # "=")
            /\ is_identifier(trim(SubSeq(line, 1, i - 1)))
        hits == { i \in 1..Len(line) : hit(i) }
    IN  IF hits = {} THEN NoSplit
        ELSE LET i == CHOOSE k \in hits : \A j \in hits : k <= j
             IN  [some |-> TRUE, name |-> trim(SubSeq(line, 1, i - 1)),
                  params |-> <<>>, rest |-> trim(SubSeq(line, i + 1, Len(line)))]

\* HashMap::insert
MapInsert(m, k, v) == [n \in DOMAIN m \cup {k} |-> IF n = k THEN v ELSE m[n]]
\* HashMap::remove
MapRemove(m, k) == [n \in DOMAIN m \ {k} |-> m[n]]

\* Variant: the function is stored under its name as written.
define_fn_as_written(s_fns, name, params, body_ast) ==
    MapInsert(s_fns, name, [params |-> params, body |-> body_ast])

\* self.fns.insert(name.to_lowercase(), (params, body_ast))
define_fn(s_fns, name, params, body_ast) ==
    MapInsert(s_fns, to_lowercase(name), [params |-> params, body |-> body_ast])

\* Variant: a value already stored under the key is kept.
assign_var_if_absent(s_vars, lhs, result) ==
    IF lhs \in DOMAIN s_vars THEN s_vars ELSE MapInsert(s_vars, lhs, CxOf(result.re, result.im))

\* self.vars.insert(lhs.to_string(), cx), cx being the result as a Cx
assign_var(s_vars, lhs, result) ==
    MapInsert(s_vars, lhs, CxOf(result.re, result.im))

\* Variant: the value of every line is also kept in the variable `ans`.
session_eval_keeps_ans(line0, s_vars, s_fns, s_mode) ==
    Bind(evaluate_with_vars_and_fns(trim(line0), s_mode, s_vars, s_fns), LAMBDA result :
      [vars |-> IF result.ok THEN assign_var(s_vars, <<"a", "n", "s">>, result.val)
                ELSE s_vars,
       fns |-> s_fns, form |-> "expression", result |-> result])

\* Variant: a definition whose body does not parse removes the function
\* stored under its name.
eval_definition_removes_failed(s_vars, s_fns, def) ==
    Bind(parse_str(def.rest), LAMBDA body_ast :
      IF ~body_ast.ok
      THEN [vars |-> s_vars, fns |-> MapRemove(s_fns, to_lowercase(def.name)),
            form |-> "definition", result |-> CalcErr(body_ast.kind)]
      ELSE [vars |-> s_vars,
            fns |-> define_fn(s_fns, def.name, def.params, body_ast.node),
            form |-> "definition",
            result |-> CalcOk(CalcReal(RZero))])

\* The definition form of Session::eval: the body is parsed, and stored
\* when it parses
eval_definition(s_vars, s_fns, def) ==
    Bind(parse_str(def.rest), LAMBDA body_ast :
      IF ~body_ast.ok
      THEN [vars |-> s_vars, fns |-> s_fns, form |-> "definition",
            result |-> CalcErr(body_ast.kind)]
      ELSE [vars |-> s_vars,
            fns |-> define_fn(s_fns, def.name, def.params, body_ast.node),
            form |-> "definition",
            result |-> CalcOk(CalcReal(RZero))])

\* Session::eval as a function of the session: the session after the call,
\* the value returned and the form of line that was taken.
session_eval(line0, s_vars, s_fns, s_mode) ==
    Bind(trim(line0), LAMBDA line :
    Bind(split_fn_def(line), LAMBDA def :
      IF def.some
      THEN eval_definition(s_vars, s_fns, def)
      ELSE Bind(split_assignment(line), LAMBDA asg :
             Bind(evaluate_with_vars_and_fns(IF asg.some THEN asg.rest ELSE line,
                                             s_mode, s_vars, s_fns), LAMBDA result :
               IF asg.some /\ result.ok
               THEN [vars |-> assign_var(s_vars, asg.name, result.val),
                     fns |-> s_fns, form |-> "assignment", result |-> result]
               ELSE [vars |-> s_vars, fns |-> s_fns,
                     form |-> IF asg.some THEN "assignment" ELSE "expression",
                     result |-> result]))))

\* Session::get_var: Some(CalcResult) or None
get_var(s_vars, name) ==
    IF name \in DOMAIN s_vars
    THEN [some |-> TRUE, val |-> to_calc_result(s_vars[name])]
    ELSE [some |-> FALSE, val |-> CalcReal(RZero)]

\* the order of String: lexicographic by byte
RECURSIVE StrLess(_, _)
StrLess(a, b) ==
    IF b = <<>> THEN FALSE
    ELSE IF a = <<>> THEN TRUE
    ELSE IF CharOrd(a[1]) # CharOrd(b[1]) THEN CharOrd(a[1]) < CharOrd(b[1])
    ELSE StrLess(Tail(a), Tail(b))

\* Vec::sort on the keys collected from a map
RECURSIVE sorted(_)
sorted(keys) ==
    IF keys = {} THEN <<>>
    ELSE LET least == CHOOSE k \in keys : \A j \in keys \ {k} : StrLess(k, j)
         IN  <<least>> \o sorted(keys \ {least})

var_names(s_vars) == sorted(DOMAIN s_vars)
fn_names(s_fns) == sorted(DOMAIN s_fns)

\* ------------------------------------------------------------------------
\* The session as a state machine
\* ------------------------------------------------------------------------

VARIABLES
    vars,        \* Session.vars: name -> Cx
    fns,         \* Session.fns: lower-case name -> [params, body]
    angle_mode,  \* Session.angle_mode
    last,        \* the last call made on the session, with the session before it
    assigned,    \* name -> the value its last successful assignment line returned,
                 \* dropped by remove_var, clear_vars and set_var of that name
    phase,       \* stateless entry points: "input" or "done"
    input,       \* stateless entry points: the text given
    output       \* stateless entry points: what parse_str and evaluate returned

state == <<vars, fns, angle_mode, last, assigned, phase, input, output>>

\* --- the lines fed to Session::eval ---

RECURSIVE JoinWith(_, _)
JoinWith(pieces, sep) ==
    IF pieces = <<>> THEN <<>>
    ELSE IF Len(pieces) = 1 THEN pieces[1]
    ELSE pieces[1] \o sep \o JoinWith(Tail(pieces), sep)

\* `<name> = <expr>`
MkAssign(name, rhs) == name \o <<" ", "=", " ">> \o rhs
\* `<name>(<p1>, ..., <pk>) = <body>`
MkDef(name, params, body) ==
    name \o <<"(">> \o JoinWith(params, <<",", " ">>) \o <<")", " ", "=", " ">> \o body
\* `<name>(<a1>, ..., <ak>)`
MkCall(name, args) == name \o <<"(">> \o JoinWith(args, <<",", " ">>) \o <<")">>

\* A line with the pieces it was written from: kind is "assign" (name, body),
\* "def" (name, params, body), "call" (name, args), "name" (name) or "expr".
Line(kind, name, params, body, args, text) ==
    [kind |-> kind, name |-> name, params |-> params, body |-> body,
     args |-> args, text |-> text]

AssignNames == {<<"x">>, <<"X">>}
AssignRhs == {<<"1">>, <<"f", "(", "2", ")">>, <<"1", " ", "+">>, <<"1", "/", "0">>}
AssignLines ==
    { Line("assign", n, <<>>, r, <<>>, MkAssign(n, r)) : n \in AssignNames, r \in AssignRhs }

DefLine(name, params, body) ==
    Line("def", name, params, body, <<>>, MkDef(name, params, body))
DefLines ==
    { DefLine(<<"f">>, <<<<"x">>>>, <<"x", "+", "1">>),
      DefLine(<<"f">>, <<<<"x">>>>, <<"x", "^", "2", "+", "1">>),
      DefLine(<<"F">>, <<<<"X">>>>, <<"X", "*", "1">>),
      DefLine(<<"f">>, <<<<"x">>>>, <<"y", "/", "0">>),
      DefLine(<<"f">>, <<<<"x">>>>, <<"x", " ", "+">>),
      DefLine(<<"g">>, <<<<"x">>, <<"y">>>>, <<"x", "-", "y">>) }

CallLine(name, args) == Line("call", name, <<>>, <<>>, args, MkCall(name, args))
CallLines ==
    { CallLine(<<"f">>, <<<<"2">>>>),
      CallLine(<<"f">>, <<<<"4">>>>),
      CallLine(<<"f">>, <<<<"X">>>>),
      CallLine(<<"f">>, <<MkCall(<<"f">>, <<<<"2">>>>)>>),
      CallLine(<<"g">>, <<<<"x">>, <<"1">>>>),
      CallLine(<<"g">>, <<<<"5">>, MkCall(<<"f">>, <<<<"x">>>>)>>) }

NameLines == { Line("name", n, <<>>, <<>>, <<>>, n) : n \in AssignNames }
OtherLines ==
    { Line("expr", <<>>, <<>>, <<>>, <<>>, t) :
        t \in { <<"x", "+", "1">> } }
\* calls with too few, too many and the right number of arguments
ArityLines ==
    { CallLine(<<"g">>, <<<<"1", "/", "0">>>>),
      CallLine(<<"f">>, <<>>),
      CallLine(<<"f">>, <<<<"1">>, <<"2">>>>),
      CallLine(<<"i", "f">>, <<<<"1", "/", "0">>>>),
      CallLine(<<"i", "f">>, <<<<"1">>, <<"2">>>>),
      CallLine(<<"i", "f">>, <<<<"1">>, <<"2">>, <<"3">>>>),
      CallLine(<<"c", "l", "a", "m", "p">>, <<<<"1">>, <<"2">>>>),
      CallLine(<<"g", "c", "d">>, <<<<"1">>>>),
      CallLine(<<"l", "c", "m">>, <<<<"1">>, <<"2">>, <<"3">>>>),
      CallLine(<<"m", "i", "n">>, <<>>),
      CallLine(<<"m", "a", "x">>, <<>>),
      CallLine(<<"a", "b", "s">>, <<<<"1", "/", "0">>, <<"2">>>>),
      CallLine(<<"a", "b", "s">>, <<<<"1", "/", "0">>>>),
      CallLine(<<"s", "i", "n">>, <<>>) }

ExprLines == NameLines \cup CallLines \cup ArityLines \cup OtherLines

Lines == AssignLines \cup DefLines \cup ExprLines

\* --- the arguments of the accessors ---

SetVarNames == {<<"x">>}
SetVarValues == {CxOf(R(1), R(2))}
RemoveVarNames == {<<"x">>, <<"X">>}
RemoveFnNames == {<<"f">>, <<"F">>, <<"g">>}

NoLine == Line("", <<>>, <<>>, <<>>, <<>>, <<>>)
NoResult == CalcOk(CalcReal(RZero))

\* The record of a call: what was called with which arguments, the form of
\* line Session::eval took, what it returned, and the session before it.
Call(op, line, name, val, form, result, pre_vars, pre_fns) ==
    [op |-> op, line |-> line, name |-> name, val |-> val,
     form |-> form, result |-> result, pre_vars |-> pre_vars, pre_fns |-> pre_fns]

Stateless == UNCHANGED <<phase, input, output>>

\* Session::new(AngleMode::Rad)
Init ==
    /\ vars = EmptyMap
    /\ fns = EmptyMap
    /\ angle_mode = "Rad"
    /\ last = Call("new", NoLine, <<>>, CxZero, "", NoResult, EmptyMap, EmptyMap)
    /\ assigned = EmptyMap
    /\ phase = "session"
    /\ input = <<>>
    /\ output = <<>>

\* The session after Session::eval returned r on the line l
Evaluated(l, r) ==
    /\ r.result.kind \notin ModelOutcomes
    /\ vars' = r.vars
    /\ fns' = r.fns
    /\ last' = Call("eval", l, <<>>, CxZero, r.form, r.result, vars, fns)
    /\ assigned' = IF l.kind = "assign" /\ r.result.ok
                   THEN MapInsert(assigned, l.name, r.result.val)
                   ELSE assigned
    /\ UNCHANGED angle_mode
    /\ Stateless

\* Session::eval(line)
Eval(l) == Evaluated(l, session_eval(l.text, vars, fns, angle_mode))

\* Session::set_var(name, re, im)
SetVar(name, value) ==
    /\ vars' = MapInsert(vars, name, CxOf(value.re, value.im))
    /\ last' = Call("set_var", NoLine, name, value, "", NoResult, vars, fns)
    /\ assigned' = MapRemove(assigned, name)
    /\ UNCHANGED <<fns, angle_mode>>
    /\ Stateless

\* Session::remove_var(name)
RemoveVar(name) ==
    /\ vars' = MapRemove(vars, name)
    /\ last' = Call("remove_var", NoLine, name, CxZero, "", NoResult, vars, fns)
    /\ assigned' = MapRemove(assigned, name)
    /\ UNCHANGED <<fns, angle_mode>>
    /\ Stateless

\* Session::clear_vars()
ClearVars ==
    /\ vars' = EmptyMap
    /\ last' = Call("clear_vars", NoLine, <<>>, CxZero, "", NoResult, vars, fns)
    /\ assigned' = EmptyMap
    /\ UNCHANGED <<fns, angle_mode>>
    /\ Stateless

\* Variant: remove_fn looks the name up as written.
RemoveFnAsWritten(name) ==
    /\ fns' = MapRemove(fns, name)
    /\ last' = Call("remove_fn", NoLine, name, CxZero, "", NoResult, vars, fns)
    /\ UNCHANGED <<vars, angle_mode, assigned>>
    /\ Stateless

\* Session::remove_fn(name)
RemoveFn(name) ==
    /\ fns' = MapRemove(fns, to_lowercase(name))
    /\ last' = Call("remove_fn", NoLine, name, CxZero, "", NoResult, vars, fns)
    /\ UNCHANGED <<vars, angle_mode, assigned>>
    /\ Stateless

Next ==
    \/ \E l \in Lines : Eval(l)
    \/ \E name \in SetVarNames, value \in SetVarValues : SetVar(name, value)
    \/ \E name \in RemoveVarNames : RemoveVar(name)
    \/ ClearVars
    \/ \E name \in RemoveFnNames : RemoveFn(name)

Spec == Init /\ [][Next]_state

\* ------------------------------------------------------------------------
\* A session of calls: conditionals, recursion, and stored functions that
\* have the name of a built-in
\* ------------------------------------------------------------------------

\* if(c, a, b)
IfConditions == { <<"0">>, <<"1">>, <<"x">>, <<"1", "/", "0">> }
IfValues == { <<"2">>, <<"1", "/", "0">>, <<"y">> }
IfLines ==
    { CallLine(<<"i", "f">>, <<c, a, b>>) : c \in IfConditions, a \in IfValues, b \in IfValues }

\* r(n) = if(n, r(n - 1), 7): the recursive call is in the branch taken
\* when n is not zero
RecursiveDef ==
    DefLine(<<"r">>, <<<<"n">>>>,
            MkCall(<<"i", "f">>, <<<<"n">>, MkCall(<<"r">>, <<<<"n", " ", "-", " ", "1">>>>),
                                   <<"7">>>>))

\* r(0), ..., r(MaxCallDepth - 1): the calls that reach the base case within
\* the depth followed
RecursiveCalls ==
    { CallLine(<<"r">>, << <<DigitChars[k + 1]>> >>) : k \in 0..(MaxCallDepth - 1) }

\* l && r and l || r
LogicLefts == { <<"0">>, <<"1">>, <<"x">>, <<"1", "/", "0">> }
LogicRights == { <<"0">>, <<"3">>, <<"x">>, <<"1", "/", "0">>, <<"y">> }
LogicLines ==
    { Line("logic", op, <<>>, <<>>, <<l, r>>, l \o <<" ">> \o op \o <<" ">> \o r) :
        op \in { <<"&", "&">>, <<"|", "|">> }, l \in LogicLefts, r \in LogicRights }

\* F(x) = x + 1 and calls written in several letter cases
UpperCaseDef == DefLine(<<"F">>, <<<<"x">>>>, <<"x", " ", "+", " ", "1">>)
CaseCalls ==
    { CallLine(n, <<<<"2">>>>) : n \in { <<"f">>, <<"F">> } }
        \cup { CallLine(n, <<<<"-", "2">>>>) :
                 n \in { <<"a", "b", "s">>, <<"A", "B", "S">>, <<"A", "b", "s">> } }
        \cup { CallLine(n, <<<<"7">>, <<"2">>>>) :
                 n \in { <<"m", "i", "n">>, <<"M", "i", "N">>, <<"g", "c", "d">>,
                         <<"G", "C", "D">> } }
        \cup { CallLine(<<"I", "F">>, <<<<"0">>, <<"y">>, <<"2">>>>) }

CallSpecLines ==
    IfLines \cup {RecursiveDef} \cup RecursiveCalls \cup LogicLines
        \cup {UpperCaseDef} \cup CaseCalls

CallSetVarValues == { CxOf(R(1), R(2)), CxOf(R(0), R(1)), CxZero }
CallRemoveFnNames == { <<"r">>, <<"f">>, <<"F">> }

CallNext ==
    \/ \E l \in CallSpecLines : Eval(l)
    \/ \E name \in SetVarNames, value \in CallSetVarValues : SetVar(name, value)
    \/ \E name \in CallRemoveFnNames : RemoveFn(name)

CallSpec == Init /\ [][CallNext]_state

\* ------------------------------------------------------------------------
\* A session of calls: the order of the arguments, their environment, and
\* stored functions that have the name of a built-in
\* ------------------------------------------------------------------------

\* Two operands or arguments that fail, each in its own way
FailingPairs ==
    { << <<"(", "1", "/", "0", ")">>, <<"y">> >>, << <<"y">>, <<"(", "1", "/", "0", ")">> >> }

BinaryOperators ==
    { <<"+">>, <<"-">>, <<"*">>, <<"/">>, <<"^">>, <<"%">>,
      <<"=", "=">>, <<"!", "=">>, <<"<">>, <<"<", "=">>, <<">">>, <<">", "=">> }

\* l op r with both operands failing
OperandLines ==
    { Line("binary", op, <<>>, <<>>, p, p[1] \o <<" ">> \o op \o <<" ">> \o p[2]) :
        op \in BinaryOperators, p \in FailingPairs }

\* Calls with two failing arguments, after none or one that has a value
ArgumentLines ==
    { CallLine(n, p) :
        n \in { <<"m", "i", "n">>, <<"m", "a", "x">>, <<"g", "c", "d">>, <<"l", "c", "m">>,
                <<"g">> },
        p \in FailingPairs }
      \cup { CallLine(n, <<<<"0">>>> \o p) :
                n \in { <<"c", "l", "a", "m", "p">>, <<"m", "i", "n">>, <<"i", "f">>,
                        <<"h">> },
                p \in FailingPairs }
      \cup { CallLine(n, p \o <<<<"2">>>>) :
                n \in { <<"c", "l", "a", "m", "p">>, <<"i", "f">>, <<"h">> },
                p \in FailingPairs }

ArgumentDefs ==
    { DefLine(<<"g">>, <<<<"x">>, <<"y">>>>, <<"x", " ", "-", " ", "y">>),
      DefLine(<<"h">>, <<<<"a">>, <<"b">>, <<"c">>>>, <<"a">>) }

\* Calls of g(x, y) whose second argument reads x
CallerLines ==
    { CallLine(<<"g">>, <<<<"1">>, <<"x">>>>),
      CallLine(<<"g">>, <<<<"4">>, <<"x", " ", "+", " ", "1">>>>),
      CallLine(<<"g">>, <<<<"x">>, <<"2">>>>) }

\* Definitions under the name of a built-in, and calls of that name
OverrideDefs ==
    { DefLine(<<"a", "b", "s">>, <<<<"x">>>>, <<"x", " ", "+", " ", "1">>),
      DefLine(<<"i", "f">>, <<<<"a">>, <<"b">>, <<"c">>>>, <<"a">>) }
OverrideCalls ==
    { CallLine(<<"a", "b", "s">>, <<<<"-", "2">>>>),
      CallLine(<<"A", "B", "S">>, <<<<"-", "2">>>>),
      CallLine(<<"a", "b", "s">>, <<<<"1">>, <<"2">>>>),
      CallLine(<<"i", "f">>, <<<<"0">>, <<"2">>, <<"3">>>>),
      CallLine(<<"i", "f">>, <<<<"5">>, <<"2">>, <<"1", "/", "0">>>>) }

ArgSpecLines ==
    OperandLines \cup ArgumentLines \cup ArgumentDefs \cup CallerLines
        \cup OverrideDefs \cup OverrideCalls

ArgSetVarValues == { CxReal(R(3)) }
ArgRemoveFnNames == { <<"g">>, <<"a", "b", "s">>, <<"I", "F">> }

ArgNext ==
    \/ \E l \in ArgSpecLines : Eval(l)
    \/ \E name \in SetVarNames, value \in ArgSetVarValues : SetVar(name, value)
    \/ \E name \in ArgRemoveFnNames : RemoveFn(name)

ArgSpec == Init /\ [][ArgNext]_state

\* ------------------------------------------------------------------------
\* The stateless entry points applied to one input
\* ------------------------------------------------------------------------

\* An input: the text given to parse_str and evaluate, a second text it is
\* compared with, and the pieces both were written from.
Input(family, operands, ops, text, alt) ==
    [family |-> family, operands |-> operands, ops |-> ops, text |-> text, alt |-> alt]

\* s and "-" + s
NegTexts ==
    { <<"2">>, <<"0">>, <<"x">>, <<"(", "1", "+", "2", ")">>,
      <<"2", "*", "3">>, <<"6", "/", "4">>, <<"7", "%", "4">>, <<"2", "(", "3", ")">>,
      <<"2", "*", "3", "^", "2">>, <<"a", "b", "s", "(", "1", ")">>,
      <<"|", "3", "-", "7", "|">>, <<"5", "%", "0">>,
      <<"1", "+", "2">>, <<"2", "-", "1">>, <<"2", "*", "3", "+", "1">>,
      <<"2", "^", "2">>, <<"2", "^", "3">>, <<"0", "!">>, <<"3", "!">>,
      <<"1", "<", "2">>, <<"1", "=", "=", "1">>, <<"1", "&", "&", "1">>,
      <<"-", "2">>, <<"+", "2">> }
NegInputs == { Input("neg", <<s>>, <<>>, s, <<"-">> \o s) : s \in NegTexts }

\* a^b^c
PowOperands ==
    { <<"2">>, <<"3">>, <<"x">>, <<"-", "2">>, <<"(", "1", "+", "2", ")">> }
PowInputs ==
    { Input("pow", <<a, b, c>>, <<<<"^">>, <<"^">>>>,
            a \o <<"^">> \o b \o <<"^">> \o c, a \o <<"^">> \o b \o <<"^">> \o c) :
        a \in PowOperands, b \in PowOperands, c \in PowOperands }

\* o1 op1 o2 ... opk ok+1 over the binary operators
OperatorTexts ==
    { <<"|", "|">>, <<"&", "&">>, <<"=", "=">>, <<"!", "=">>, <<"<">>, <<"<", "=">>,
      <<">">>, <<">", "=">>, <<"+">>, <<"-">>, <<"*">>, <<"/">>, <<"%">>, <<"^">> }
ChainOperands ==
    { <<<<"2">>, <<"3">>>>, <<<<"2">>, <<"3">>, <<"4">>>>,
      <<<<"8">>, <<"3">>, <<"2">>>>, <<<<"a">>, <<"b">>, <<"c">>>> }
RECURSIVE ChainText(_, _)
ChainText(operands, ops) ==
    IF ops = <<>> THEN operands[1]
    ELSE operands[1] \o ops[1] \o ChainText(Tail(operands), Tail(ops))
ChainInputs ==
    { Input("chain", c[1], c[2], ChainText(c[1], c[2]), ChainText(c[1], c[2])) :
        c \in UNION { {o} \X [1..(Len(o) - 1) -> OperatorTexts] : o \in ChainOperands } }

\* left right and left * right, inside a prefix and a suffix
ImplicitLefts ==
    { <<"2">>, <<"(", "1", "+", "2", ")">>, <<"3", "!">>, <<"2", "^", "3">>,
      <<"-", "2">>, <<"x", " ">> }
ImplicitRights ==
    { <<"x">>, <<"(", "1", "+", "y", ")">>, <<"U+03C0">>, <<"x", "^", "2">>,
      <<"s", "i", "n", "(", "3", ")">>, <<"y", "!">>, <<"y", " ", "z">> }
ImplicitContexts ==
    { <<<<>>, <<>>>>, <<<<"1", "+">>, <<>>>>, <<<<>>, <<"*", "4">>>>,
      <<<<"6", "/">>, <<"-", "1">>>> }
\* `x (` is the head of a call, not an operand followed by `(`
ImplicitPairs ==
    { p \in ImplicitLefts \X ImplicitRights :
        p[1][Len(p[1])] # " " \/ p[2][1] # "(" }
ImplicitInputs ==
    { Input("implicit", p, <<>>,
            c[1] \o p[1] \o p[2] \o c[2], c[1] \o p[1] \o <<"*">> \o p[2] \o c[2]) :
        p \in ImplicitPairs, c \in ImplicitContexts }

\* |body| and abs(body): every body of up to MaxBarLen characters over digits
\* and operator characters, and a few longer ones
BarChars == {"3", "7", "-", "*", "U+00D7", "^", "(", ")"}
BarBodies ==
    UNION { [1..n -> BarChars] : n \in 0..MaxBarLen }
      \cup { <<"3", "+", "7">>, <<"7", "/", "3">>, <<"3", "U+2212", "7">>,
             <<"7", "U+00F7", "3">>, <<"3", "*", "*", "2">>,
             <<"(", "3", "-", "7", ")">>, <<"3", "-", "7", "*", "3">> }
BarInputs ==
    { Input("bar", <<b>>, <<>>, <<"|">> \o b \o <<"|">>,
            <<"a", "b", "s", "(">> \o b \o <<")">>) : b \in BarBodies }

\* min(a1,...,an) and max(a1,...,an), written with `,` and with `, `
MinMaxArgs ==
    { <<"1">>, <<"2">>, <<"7">>, <<"(", "2", ")">>, <<".", "5">>, <<"-", "3">> }
MinMaxInputs ==
    { Input("minmax", c[2], <<c[1]>>,
            c[1] \o <<"(">> \o JoinWith(c[2], <<",">>) \o <<")">>,
            c[1] \o <<"(">> \o JoinWith(c[2], <<",", " ">>) \o <<")">>) :
        c \in { <<"m", "i", "n">>, <<"m", "a", "x">> }
                \X UNION { [1..n -> MinMaxArgs] : n \in 1..MaxArgs } }

\* texts that parse and evaluate, parse but do not evaluate, or do not parse
ValidTexts ==
    { <<"1", "+", "2">>, <<"x">>, <<"1", "/", "0">>, <<"f", "o", "o", "(", "1", ")">>,
      <<"s", "q", "r", "t", "(", "-", "1", ")">>, <<"g", "c", "d", "(", "1", ")">>,
      <<"(", "-", "1", ")", "!">>, <<"x", "+">>, <<")">>, <<"(", "1">>, <<>>,
      <<"1", " ", "2">>, <<"2", " ", "=", " ", "2">>, <<"s", "i", "n">>,
      <<"m", "o", "d">>, <<"1", ".", "2", ".", "3">>, <<"&">>, <<"#">> }
ValidInputs == { Input("valid", <<>>, <<>>, t, t) : t \in ValidTexts }

\* an operand given to an operation that wants an integer: n!, gcd and lcm
IntegerOperands ==
    { <<"2", ".", "5">>, <<".", "5">>, <<"(", "1", "/", "2", ")">>, <<"3">>, <<"0">>,
      <<"(", "-", "1", ")">>, <<"(", "-", "2", ".", "5", ")">> }
IntegerInputs ==
    { Input("integer", <<a>>, <<"!">>, a \o <<"!">>, a \o <<"!">>) : a \in IntegerOperands }
      \cup { Input("integer", <<a>>, <<f>>, f \o <<"(">> \o a \o <<",", " ", "4", ")">>,
                   f \o <<"(", "4", ",", " ">> \o a \o <<")">>) :
               a \in IntegerOperands, f \in { <<"g", "c", "d">>, <<"l", "c", "m">> } }

\* the decimal text of an integer
RECURSIVE IntegerText(_)
IntegerText(k) ==
    IF k < 0 THEN <<"-">> \o IntegerText(-k)
    ELSE IF k < 10 THEN <<DigitChars[k + 1]>>
    ELSE IntegerText(k \div 10) \o <<DigitChars[(k % 10) + 1]>>

\* gcd(a, b) and lcm(a, b) on integers, each beside the call with the
\* arguments exchanged
DivisorValues == { -12, -6, -1, 0, 1, 4, 9, 30 }
DivisorInputs ==
    { Input("divisor", <<IntegerText(a), IntegerText(b)>>, <<f>>,
            MkCall(f, <<IntegerText(a), IntegerText(b)>>),
            MkCall(f, <<IntegerText(b), IntegerText(a)>>)) :
        a \in DivisorValues, b \in DivisorValues,
        f \in { <<"g", "c", "d">>, <<"l", "c", "m">> } }

\* `&&`, `||`, `&` or `|` after a number or at the start of the text, and
\* followed by a text that starts with neither `&` nor `|`
SignLeads == { <<>>, <<"1">>, <<"1", " ">> }
Signs == { <<"&", "&">>, <<"|", "|">>, <<"&">>, <<"|">> }
SignTails ==
    { <<>>, <<"2">>, <<" ", "2">>, <<"3", "|">>, <<"-", "3", "|", "+", "1">> }
SignInputs ==
    { Input("sign", <<lead, tail>>, <<sign>>, lead \o sign \o tail, tail) :
        lead \in SignLeads, sign \in Signs, tail \in SignTails }

\* calls of names that are neither built-in nor defined
UnknownNames == { <<"f", "o", "o">>, <<"s", "i", "n", "2">> }
UnknownArgs ==
    { <<>>, <<<<"1">>>>, <<<<"2", "+", "3">>>>, <<<<"1">>, <<"2">>>>,
      <<<<"1">>, <<"2">>, <<"3">>>> }
UnknownInputs ==
    { Input("unknown", a, <<n>>, MkCall(n, a), MkCall(n, a)) :
        n \in UnknownNames, a \in UnknownArgs }

\* The bounds given to sum and prod: values near zero, around MAX_TERMS and
\* at both ends of i64
RangeBounds ==
    { I64(0, n) : n \in -2..(MaxTerms - 3) }
        \cup { I64(0, MAX_TERMS), I64(0, MAX_TERMS + 1) }
        \cup { I64Min, I64(-1, 1), I64(1, -2), I64Max }

\* The expressions given to sum and prod
RangeTexts ==
    { <<"1">>, <<"2">>, <<"k">>, <<"1", "/", "0">>, <<"1", "/", "k">>,
      <<"y">>, <<"k", "+">> }

\* sum(text, "k", from, to) and prod(text, "k", from, to)
RangeInputs ==
    { Input("range", <<from, to>>, << <<"k">> >>, t, t) :
        from \in RangeBounds, to \in RangeBounds, t \in RangeTexts }

\* The limits given to integrate
IntegralLimits == { R(0), R(2), R(-1), <<1, 2>> }

\* The integrands
IntegralTexts ==
    { <<"1">>, <<"-", "3">>, <<"1", "/", "2">>, <<"x", "-", "x", "+", "2">>,
      <<"1", "/", "0">>, <<"y">>, <<"x", "+">> }

\* integrate(text, "x", a, b)
IntegralInputs ==
    { Input("integral", <<a, b>>, << <<"x">> >>, t, t) :
        a \in IntegralLimits, b \in IntegralLimits, t \in IntegralTexts }

\* The lines given to Session::eval: a left side, one of the forms of `=`,
\* and a right side
LineLefts ==
    { <<"a">>, <<" ", "a", " ">>, <<"A">>, <<"b", "_", "1">>, <<"1">>, <<"2", "a">>,
      <<"a", " ", "b">>, <<>>, <<"a", "(", "1", ")">>, <<"a", "(", "x", ")">>, <<"_", "a">> }
LineOperators ==
    { <<"=">>, <<"=", "=">>, <<"!", "=">>, <<"<", "=">>, <<">", "=">>, <<"<">>,
      <<"=", " ", "=">>, <<" ", "=", " ">> }
LineRights ==
    { <<>>, <<" ">>, <<"1">>, <<" ", "7", " ">>, <<"a">>, <<"a", " ", "=", "=", " ", "5">>,
      <<"1", "/", "0">> }
LineInputs ==
    { Input("line", <<l, r>>, <<op>>, l \o op \o r, l \o op \o r) :
        l \in LineLefts, op \in LineOperators, r \in LineRights }

\* The variables of the session the lines are given to: a = 5
LineVars == [n \in {<<"a">>} |-> CxReal(R(5))]

Inputs == NegInputs \cup PowInputs \cup ChainInputs \cup ImplicitInputs
            \cup BarInputs \cup MinMaxInputs \cup ValidInputs
            \cup IntegerInputs \cup UnknownInputs
            \cup RangeInputs \cup IntegralInputs \cup LineInputs
            \cup DivisorInputs \cup SignInputs

NoOutput == [ast |-> PErr("ParseError"), value |-> CalcErr("ParseError"),
             alt_ast |-> PErr("ParseError"), alt_value |-> CalcErr("ParseError")]

ExprInit ==
    /\ vars = EmptyMap
    /\ fns = EmptyMap
    /\ angle_mode \in AngleModes
    /\ last = Call("new", NoLine, <<>>, CxZero, "", NoResult, EmptyMap, EmptyMap)
    /\ assigned = EmptyMap
    /\ phase = "input"
    /\ input \in Inputs
    /\ output = NoOutput

\* parse_str and evaluate on the text and on the text it is compared with
Apply ==
    /\ phase = "input"
    /\ phase' = "done"
    /\ output' = [ast |-> parse_str(input.text),
                  value |-> evaluate(input.text, angle_mode),
                  alt_ast |-> parse_str(input.alt),
                  alt_value |-> evaluate(input.alt, angle_mode)]
    /\ UNCHANGED <<vars, fns, angle_mode, last, assigned, input>>

\* is_valid on the text
IsValid ==
    /\ phase = "input"
    /\ phase' = "is_valid"
    /\ output' = [valid |-> is_valid(input.text)]
    /\ UNCHANGED <<vars, fns, angle_mode, last, assigned, input>>

\* supported_functions()
SupportedFunctions ==
    /\ phase = "input"
    /\ phase' = "supported_functions"
    /\ output' = [names |-> supported_functions]
    /\ UNCHANGED <<vars, fns, angle_mode, last, assigned, input>>

\* sum on a range input, in a build with or without overflow checks
Sum ==
    /\ phase = "input"
    /\ input.family = "range"
    /\ \E overflow_checks \in BOOLEAN :
         \E result \in { sum(input.text, input.ops[1], input.operands[1],
                             input.operands[2], angle_mode, overflow_checks) } :
           /\ result.kind \notin ModelOutcomes
           /\ output' = [result |-> result, overflow_checks |-> overflow_checks]
    /\ phase' = "sum"
    /\ UNCHANGED <<vars, fns, angle_mode, last, assigned, input>>

\* prod on a range input, in a build with or without overflow checks
Prod ==
    /\ phase = "input"
    /\ input.family = "range"
    /\ \E overflow_checks \in BOOLEAN :
         \E result \in { prod(input.text, input.ops[1], input.operands[1],
                              input.operands[2], angle_mode, overflow_checks) } :
           /\ result.kind \notin ModelOutcomes
           /\ output' = [result |-> result, overflow_checks |-> overflow_checks]
    /\ phase' = "prod"
    /\ UNCHANGED <<vars, fns, angle_mode, last, assigned, input>>

\* integrate on an integral input
Integrate ==
    /\ phase = "input"
    /\ input.family = "integral"
    /\ \E result \in { integrate(input.text, input.ops[1], input.operands[1],
                                  input.operands[2], angle_mode) } :
         /\ result.kind \notin ModelOutcomes
         /\ output' = [result |-> result]
    /\ phase' = "integrate"
    /\ UNCHANGED <<vars, fns, angle_mode, last, assigned, input>>

\* Session::eval of a line on a session that holds a = 5 and no function
SessionEval ==
    /\ phase = "input"
    /\ input.family = "line"
    /\ phase' = "session_eval"
    /\ output' = session_eval(input.text, LineVars, EmptyMap, angle_mode)
    /\ UNCHANGED <<vars, fns, angle_mode, last, assigned, input>>

ExprNext ==
    Apply \/ IsValid \/ SupportedFunctions \/ Sum \/ Prod \/ Integrate \/ SessionEval

ExprSpec == ExprInit /\ [][ExprNext]_state

\* ------------------------------------------------------------------------
\* Properties of the session (specification Spec)
\* ------------------------------------------------------------------------

\* Result<Cx, ExathError> as Result<CalcResult, ExathError>
AsCalc(res) == IF res.ok THEN CalcOk(to_calc_result(res.val)) ELSE CalcErr(res.kind)

\* eval has just returned from a line of the kind given
EvalOf(kind) == last.op = "eval" /\ last.line.kind = kind

\* What the definition line d stores: its parameters and its parsed body
Stored(d) == [params |-> d.params, body |-> parse_str(d.body).node]

\* name without its upper case, letter by letter
Lowered(name) == [i \in 1..Len(name) |-> char_to_lowercase(name[i])]

\* n keeps its presence and its value from the map before to the map after
Kept(before, after, n) ==
    /\ n \in DOMAIN after <=> n \in DOMAIN before
    /\ n \in DOMAIN before => after[n] = before[n]

\* C1: a variable assigned by a line `<name> = <expr>` that evaluated
\* successfully, and neither removed, cleared nor reassigned since, is
\* returned by a later eval of the plain expression `<name>`, whatever the
\* letter case of the name.
C1_AssignedNameReadsBack ==
    (EvalOf("name") /\ last.line.name \in DOMAIN assigned)
        => last.result = CalcOk(assigned[last.line.name])

\* The value of the i-th argument of the call line in the session before it
ArgValue(i) ==
    eval_ast(parse_str(last.line.args[i]).node, last.pre_vars, last.pre_fns, angle_mode, 0)

\* The caller's environment overridden by the bindings p_i -> value(a_i)
CallEnv(params) ==
    [n \in DOMAIN last.pre_vars \cup Range(params) |->
        IF n \in Range(params)
        THEN ArgValue(CHOOSE i \in 1..Len(params) :
                        params[i] = n /\ \A j \in (i + 1)..Len(params) : params[j] # n).val
        ELSE last.pre_vars[n]]

\* The call line names a stored function, with as many arguments as it has
\* parameters, each of which has a value
CallApplies ==
    /\ EvalOf("call")
    /\ Lowered(last.line.name) \in DOMAIN last.pre_fns
    /\ Len(last.line.args) = Len(last.pre_fns[Lowered(last.line.name)].params)
    /\ \A i \in 1..Len(last.line.args) : ArgValue(i).ok

\* C2: a call f(a1,...,ak) of a stored function returns the stored body
\* evaluated in the caller's environment overridden by p_i -> value(a_i);
\* after f(x)=x+1 the line f(f(2)) yields 4, after f(x)=x^2+1 the line f(4)
\* yields 17.
C2_CallEvaluatesBodyInOverriddenEnv ==
    /\ CallApplies =>
         last.result =
           AsCalc(eval_ast(last.pre_fns[Lowered(last.line.name)].body,
                           CallEnv(last.pre_fns[Lowered(last.line.name)].params),
                           last.pre_fns, angle_mode, 1))
    /\ ( /\ EvalOf("call")
         /\ last.line.text = MkCall(<<"f">>, <<MkCall(<<"f">>, <<<<"2">>>>)>>)
         /\ <<"f">> \in DOMAIN last.pre_fns
         /\ last.pre_fns[<<"f">>] = Stored([params |-> <<<<"x">>>>, body |-> <<"x", "+", "1">>]) )
         => last.result = CalcOk(CalcReal(R(4)))
    /\ ( /\ EvalOf("call")
         /\ last.line.text = MkCall(<<"f">>, <<<<"4">>>>)
         /\ <<"f">> \in DOMAIN last.pre_fns
         /\ last.pre_fns[<<"f">>] =
              Stored([params |-> <<<<"x">>>>, body |-> <<"x", "^", "2", "+", "1">>]) )
         => last.result = CalcOk(CalcReal(R(17)))

\* A call with two arguments, the second a nested call reading the caller's
\* x while x is also the first parameter, has returned a value.
C2_Witness ==
    /\ CallApplies
    /\ last.result.ok
    /\ Len(last.line.args) = 2
    /\ <<"x">> \in DOMAIN last.pre_vars
    /\ last.pre_vars[<<"x">>] # CxReal(R(5))

\* f(f(2)) has returned 4.
C2_WitnessNested ==
    /\ EvalOf("call")
    /\ last.line.text = MkCall(<<"f">>, <<MkCall(<<"f">>, <<<<"2">>>>)>>)
    /\ last.result = CalcOk(CalcReal(R(4)))

\* C3: after eval succeeds on an assignment line, get_var of the name as
\* written returns the value eval returned, whatever was stored before.
C3_AssignmentStoresResult ==
    (EvalOf("assign") /\ last.result.ok)
        => get_var(vars, last.line.name) = [some |-> TRUE, val |-> last.result.val]

\* An assignment has replaced a different value of the name.
C3_Witness ==
    /\ EvalOf("assign")
    /\ last.result.ok
    /\ last.line.name \in DOMAIN last.pre_vars
    /\ to_calc_result(last.pre_vars[last.line.name]) # last.result.val

\* C4: a definition line whose body parses stores (params, parsed body) under
\* the lower-cased name, replacing any definition of that name, returns
\* Real(0.0) whatever the body would evaluate to, and changes no variable
\* and no other function.
C4_DefinitionStoresParsedBody ==
    (EvalOf("def") /\ parse_str(last.line.body).ok)
        => /\ last.result = CalcOk(CalcReal(RZero))
           /\ DOMAIN fns = DOMAIN last.pre_fns \cup {Lowered(last.line.name)}
           /\ fns[Lowered(last.line.name)] = Stored(last.line)
           /\ \A n \in DOMAIN fns \ {Lowered(last.line.name)} : fns[n] = last.pre_fns[n]
           /\ vars = last.pre_vars

\* A definition written with an upper-case name has replaced another one.
C4_Witness ==
    /\ EvalOf("def")
    /\ last.line.name # Lowered(last.line.name)
    /\ Lowered(last.line.name) \in DOMAIN last.pre_fns
    /\ last.pre_fns[Lowered(last.line.name)] # Stored(last.line)
    /\ fns[Lowered(last.line.name)] = Stored(last.line)

\* A definition whose body divides by zero and reads an undefined name has
\* been stored.
C4_WitnessBodyNotEvaluated ==
    /\ EvalOf("def")
    /\ last.line.body = <<"y", "/", "0">>
    /\ last.result = CalcOk(CalcReal(RZero))
    /\ ~evaluate_with_vars_and_fns(last.line.body, angle_mode, vars, fns).ok

\* C5: eval of a plain expression line, calls of stored functions included,
\* changes neither the variables nor the functions.
C5_ExpressionChangesNothing ==
    (last.op = "eval" /\ last.line.kind \in {"name", "call", "expr"})
        => vars = last.pre_vars /\ fns = last.pre_fns

\* A call has returned a value while a session variable has the name of its
\* parameter, with another value than the argument.
C5_Witness ==
    /\ CallApplies
    /\ last.result.ok
    /\ last.line.text = MkCall(<<"f">>, <<<<"2">>>>)
    /\ last.pre_fns[<<"f">>].params = <<<<"x">>>>
    /\ <<"x">> \in DOMAIN vars
    /\ vars[<<"x">>] # CxReal(R(2))

\* names lists exactly the keys, in strictly increasing byte order
SortedKeys(names, keys) ==
    /\ Range(names) = keys
    /\ Len(names) = Cardinality(keys)
    /\ \A i \in 1..(Len(names) - 1) : StrLess(names[i], names[i + 1])

\* C6: set_var, remove_var and clear_vars change the variable named (or all)
\* and nothing else; remove_fn removes the function under the lower-cased
\* name and nothing else; var_names and fn_names are the sorted keys.
C6_AccessorsChangeWhatTheyName ==
    /\ last.op = "set_var" =>
         /\ get_var(vars, last.name) = [some |-> TRUE, val |-> to_calc_result(last.val)]
         /\ \A n \in (DOMAIN vars \cup DOMAIN last.pre_vars) \ {last.name} :
              Kept(last.pre_vars, vars, n)
         /\ fns = last.pre_fns
    /\ last.op = "remove_var" =>
         /\ ~get_var(vars, last.name).some
         /\ \A n \in (DOMAIN vars \cup DOMAIN last.pre_vars) \ {last.name} :
              Kept(last.pre_vars, vars, n)
         /\ fns = last.pre_fns
    /\ last.op = "clear_vars" => DOMAIN vars = {} /\ fns = last.pre_fns
    /\ last.op = "remove_fn" =>
         /\ Lowered(last.name) \notin DOMAIN fns
         /\ \A n \in (DOMAIN fns \cup DOMAIN last.pre_fns) \ {Lowered(last.name)} :
              Kept(last.pre_fns, fns, n)
         /\ vars = last.pre_vars
    /\ SortedKeys(var_names(vars), DOMAIN vars)
    /\ SortedKeys(fn_names(fns), DOMAIN fns)

\* remove_fn of a name written in upper case has removed a function while
\* another function and two variables stay.
C6_Witness ==
    /\ last.op = "remove_fn"
    /\ last.name # Lowered(last.name)
    /\ Lowered(last.name) \in DOMAIN last.pre_fns
    /\ Cardinality(DOMAIN fns) = 1
    /\ Cardinality(DOMAIN vars) = 2

\* set_var has replaced the value of a variable while another one stays.
C6_WitnessSetVar ==
    /\ last.op = "set_var"
    /\ last.name \in DOMAIN last.pre_vars
    /\ last.pre_vars[last.name] # last.val
    /\ Cardinality(DOMAIN vars) = 2

\* ------------------------------------------------------------------------
\* Properties of the stateless entry points (specification ExprSpec)
\* ------------------------------------------------------------------------

\* parse_str and evaluate have returned on an input of the family given
Done(family) == phase = "done" /\ input.family = family

\* The tree parse_str gives for a text
Node(text) == parse_str(text).node

\* evaluate returned a real value for s and for "-" + s
BothReal == output.value.ok /\ output.alt_value.ok

\* evaluate("-" + s) is the negation of evaluate(s)
Negated == output.alt_value.val = CalcReal(RNeg(output.value.val.re))

\* The tokens are one chain of factors: parse_term takes them all
IsProduct(tokens) ==
    LET term == parse_term(tokens, 1)
    IN  term.ok /\ term.pos = Len(tokens) + 1

\* The tokens start with a primary that is followed by neither ^ nor !
FirstFactorAlone(tokens) ==
    LET first == parse_primary(tokens, 1)
    IN  /\ first.ok
        /\ ~tok_is(tokens, first.pos, "Pow")
        /\ ~tok_is(tokens, first.pos, "Factorial")

\* C7 as stated: whenever evaluate(s, m) and evaluate("-" + s, m) are both
\* real, the second is the negation of the first.
C7_NegationLaw == (Done("neg") /\ BothReal) => Negated

\* C7 restated: the negation law holds when s is a chain of factors joined by
\* * / % or implicit multiplication whose first factor is a primary followed
\* by neither ^ nor !  (the prefix minus of "-" + s binds to that primary).
C7_NegationOfProduct ==
    ( /\ Done("neg")
      /\ BothReal
      /\ tokenize(input.text).ok
      /\ IsProduct(tokenize(input.text).tokens)
      /\ FirstFactorAlone(tokenize(input.text).tokens) )
        => Negated

\* 2*3^2 and -2*3^2 have been evaluated, to 18 and -18.
C7_Witness ==
    /\ Done("neg")
    /\ input.text = <<"2", "*", "3", "^", "2">>
    /\ IsProduct(tokenize(input.text).tokens)
    /\ FirstFactorAlone(tokenize(input.text).tokens)
    /\ output.value = CalcOk(CalcReal(R(18)))
    /\ output.alt_value = CalcOk(CalcReal(R(-18)))

OperatorLevel(op) ==
    CASE op = <<"|", "|">> -> 1
      [] op = <<"&", "&">> -> 2
      [] op \in { <<"=", "=">>, <<"!", "=">>, <<"<">>, <<"<", "=">>, <<">">>, <<">", "=">> } -> 3
      [] op \in { <<"+">>, <<"-">> } -> 4
      [] op \in { <<"*">>, <<"/">>, <<"%">> } -> 5
      [] op = <<"^">> -> 6

OperatorBinOp(op) ==
    CASE op = <<"|", "|">> -> "Or"   [] op = <<"&", "&">> -> "And"
      [] op = <<"=", "=">> -> "Eq"   [] op = <<"!", "=">> -> "Ne"
      [] op = <<"<">> -> "Lt"        [] op = <<"<", "=">> -> "Le"
      [] op = <<">">> -> "Gt"        [] op = <<">", "=">> -> "Ge"
      [] op = <<"+">> -> "Add"       [] op = <<"-">> -> "Sub"
      [] op = <<"*">> -> "Mul"       [] op = <<"/">> -> "Div"
      [] op = <<"%">> -> "Mod"       [] op = <<"^">> -> "Pow"

\* The operator at which a chain splits: one of the lowest level present,
\* the last of them when the level groups to the left and the first of them
\* for ^, which groups to the right.
SplitAt(ops) ==
    LET lowest == CHOOSE k \in 1..Len(ops) :
                    \A j \in 1..Len(ops) : OperatorLevel(ops[k]) <= OperatorLevel(ops[j])
        same == { k \in 1..Len(ops) : OperatorLevel(ops[k]) = OperatorLevel(ops[lowest]) }
    IN  IF ops[lowest] = <<"^">>
        THEN CHOOSE k \in same : \A j \in same : k <= j
        ELSE CHOOSE k \in same : \A j \in same : j <= k

\* The tree the precedence order gives to the chain nodes[1] ops[1] nodes[2] ...
RECURSIVE Grouped(_, _)
Grouped(nodes, ops) ==
    IF ops = <<>> THEN nodes[1]
    ELSE LET k == SplitAt(ops)
         IN  AstBinOp(OperatorBinOp(ops[k]),
                      Grouped(SubSeq(nodes, 1, k), SubSeq(ops, 1, k - 1)),
                      Grouped(SubSeq(nodes, k + 1, Len(nodes)), SubSeq(ops, k + 1, Len(ops))))

\* C9: a chain of binary operators is grouped by the precedence order
\* || < && < comparisons < + - < * / % < ^, to the left within a level other
\* than ^: 2+3*4 is Add(2, Mul(3,4)) and evaluates to 14, 8-3-2 is
\* Sub(Sub(8,3),2), a<b<c is Lt(Lt(a,b),c).
C9_PrecedenceAndLeftAssociativity ==
    Done("chain") =>
        /\ output.ast.ok
        /\ output.ast.node =
             Grouped([i \in 1..Len(input.operands) |-> Node(input.operands[i])], input.ops)
        /\ input.text = <<"2", "+", "3", "*", "4">> =>
             /\ output.ast.node =
                  AstBinOp("Add", AstNumber(R(2)),
                           AstBinOp("Mul", AstNumber(R(3)), AstNumber(R(4))))
             /\ output.value = CalcOk(CalcReal(R(14)))
        /\ input.text = <<"8", "-", "3", "-", "2">> =>
             output.ast.node =
               AstBinOp("Sub", AstBinOp("Sub", AstNumber(R(8)), AstNumber(R(3))),
                        AstNumber(R(2)))
        /\ input.text = <<"a", "<", "b", "<", "c">> =>
             output.ast.node =
               AstBinOp("Lt", AstBinOp("Lt", AstVar(<<"a">>), AstVar(<<"b">>)),
                        AstVar(<<"c">>))

\* 2+3*4 has been parsed and evaluated, to 14.
C9_Witness ==
    /\ Done("chain")
    /\ input.text = <<"2", "+", "3", "*", "4">>
    /\ output.ast.ok
    /\ output.value = CalcOk(CalcReal(R(14)))

\* C10: an operand directly followed by ( or an identifier parses to the tree
\* of the same text with * written between the two; 2x is Mul(2, x).
C10_ImplicitMultiplicationIsMul ==
    Done("implicit") =>
        /\ output.ast.ok
        /\ output.alt_ast.ok
        /\ output.ast.node = output.alt_ast.node
        /\ input.text = <<"2", "x">> =>
             output.ast.node = AstBinOp("Mul", AstNumber(R(2)), AstVar(<<"x">>))

\* 3!x^2 has been parsed, to Mul(Factorial(3), Pow(x, 2)).
C10_Witness ==
    /\ Done("implicit")
    /\ input.text = <<"3", "!", "x", "^", "2">>
    /\ output.ast.ok
    /\ output.ast.node =
         AstBinOp("Mul", AstFactorial(AstNumber(R(3))),
                  AstBinOp("Pow", AstVar(<<"x">>), AstNumber(R(2))))

\* The body written between the bars
BarBody == input.operands[1]

\* The body holds a `*` or a U+00D7 directly followed by `*`
StarStar(body) ==
    \E i \in 1..(Len(body) - 1) : body[i] \in {"*", "U+00D7"} /\ body[i + 1] = "*"

\* Every number of the body is a single digit: no digit follows a digit
OneDigitNumbers(body) ==
    \A i \in 1..(Len(body) - 1) : ~(is_ascii_digit(body[i]) /\ is_ascii_digit(body[i + 1]))

\* |body| gave the tokens, the parse result and the value of abs(body)
SameAsAbs ==
    /\ tokenize(input.text) = tokenize(input.alt)
    /\ output.ast = output.alt_ast
    /\ output.value = output.alt_value

\* C11 as stated: for every body of one-digit numbers and operator
\* characters, |body| gives the token stream, the parse result and the value
\* of abs(body).
C11_BarIsAbs == (Done("bar") /\ OneDigitNumbers(BarBody)) => SameAsAbs

\* C11 restated: for a body of one-digit numbers and operator characters,
\* |body| gives the token stream, the parse result and the value of
\* abs(body) when the body is not empty (`||` is the logical or) and
\* holds no `*` directly followed by `*` (two Mul tokens inside the bars, one
\* Pow token outside them); |3-7| evaluates to 4.
C11_BarIsAbsOfPlainBody ==
    (Done("bar") /\ OneDigitNumbers(BarBody) /\ BarBody # <<>> /\ ~StarStar(BarBody)) =>
        /\ SameAsAbs
        /\ BarBody = <<"3", "-", "7">> => output.value = CalcOk(CalcReal(R(4)))

\* |3-7| and abs(3-7) have been tokenized alike and evaluated, to 4.
C11_Witness ==
    /\ Done("bar")
    /\ BarBody = <<"3", "-", "7">>
    /\ tokenize(input.text).ok
    /\ Len(tokenize(input.text).tokens) = 6
    /\ SameAsAbs
    /\ output.value = CalcOk(CalcReal(R(4)))

\* The values of the argument texts, each evaluated on its own
ArgValues == { evaluate(input.operands[i], angle_mode).val.re : i \in 1..Len(input.operands) }

\* The smallest (for min) or largest (for max) of the argument values
Best ==
    IF input.ops[1] = <<"m", "i", "n">>
    THEN CHOOSE v \in ArgValues : \A w \in ArgValues : RLe(v, w)
    ELSE CHOOSE v \in ArgValues : \A w \in ArgValues : RLe(w, v)

\* A `,` of the text is directly followed by a digit
CommaBeforeDigit(text) ==
    \E i \in 1..(Len(text) - 1) : text[i] = "," /\ is_ascii_digit(text[i + 1])

\* C12 as stated: min(a1,...,an) and max(a1,...,an) return the smallest and
\* the largest of the n argument values.
C12_MinMaxOfArguments == Done("minmax") => output.value = CalcOk(CalcReal(Best))

\* C12 restated: min and max return the smallest and the largest of the n
\* argument values when no `,` between two arguments is directly followed by
\* a digit, as in `min(1, 2)`; the `,` of `min(1,2)` is a decimal separator.
C12_MinMaxOfSeparatedArguments ==
    Done("minmax") =>
        /\ output.alt_value = CalcOk(CalcReal(Best))
        /\ ~CommaBeforeDigit(input.text) => output.value = CalcOk(CalcReal(Best))

\* min(7, 2, -3) has been evaluated, to -3, and min(7,2,-3), to -3 as well
\* (7,2 is one number).
C12_Witness ==
    /\ Done("minmax")
    /\ input.text = <<"m", "i", "n", "(", "7", ",", "2", ",", "-", "3", ")">>
    /\ output.alt_value = CalcOk(CalcReal(R(-3)))
    /\ output.ast.node = AstCall(<<"m", "i", "n">>,
                                 <<AstNumber(<<36, 5>>), AstUnaryNeg(AstNumber(R(3)))>>)

\* max(7,(2),.5) has been evaluated: no `,` is read as a decimal separator.
C12_WitnessPlainCommas ==
    /\ Done("minmax")
    /\ input.text = <<"m", "a", "x", "(", "7", ",", "(", "2", ")", ",", ".", "5", ")">>
    /\ ~CommaBeforeDigit(input.text)
    /\ Len(output.ast.node.kids) = 3
    /\ output.value = CalcOk(CalcReal(R(7)))

\* C13: is_valid(s) is true exactly when parse_str(s) succeeds, whatever the
\* evaluation of s gives: a text that parses and fails at evaluation is valid.
C13_ValidIffParses ==
    phase = "is_valid" =>
        /\ output.valid = parse_str(input.text).ok
        /\ (parse_str(input.text).ok /\ ~evaluate_complex(input.text, angle_mode).ok)
             => output.valid

\* is_valid has returned true on 1/0, which parses and evaluates to a
\* DomainError.
C13_Witness ==
    /\ phase = "is_valid"
    /\ input.text = <<"1", "/", "0">>
    /\ evaluate_complex(input.text, angle_mode) = CalcErr("DomainError")
    /\ output.valid

\* is_valid has returned false on a text that does not parse.
C13_WitnessInvalid ==
    /\ phase = "is_valid"
    /\ input.text = <<"x", "+">>
    /\ ~output.valid

\* The groups of names, in the order the list is said to have
Categories ==
    << {"sin", "cos", "tan", "cot", "sec", "csc"},
       {"asin", "acos", "atan", "acot", "asec", "acsc"},
       {"sinh", "cosh", "tanh", "coth", "sech", "csch"},
       {"asinh", "acosh", "atanh", "acoth", "asech", "acsch"},
       {"exp", "ln", "lg", "log"},
       {"sqrt", "cbrt"},
       {"abs", "arg", "conj", "real", "imag"},
       {"floor", "ceil", "round", "trunc", "frac"},
       {"sign", "sgn"},
       {"deg", "rad"},
       {"if", "min", "max", "clamp", "gcd", "lcm"} >>

CategoryOf(name) == CHOOSE c \in 1..Len(Categories) : name \in Categories[c]

\* The list holds every name of every group once, group after group
InCategoryOrder(names) ==
    /\ \A i \in 1..Len(names) : \E c \in 1..Len(Categories) : names[i] \in Categories[c]
    /\ \A c \in 1..Len(Categories) : \A n \in Categories[c] : \E i \in 1..Len(names) : names[i] = n
    /\ \A i, j \in 1..Len(names) : i < j =>
         /\ names[i] # names[j]
         /\ CategoryOf(names[i]) <= CategoryOf(names[j])

LastNode == parse_str(last.line.text).node

\* The names of the built-in functions that take a single argument
SingleArgumentNames == FunctionNames \ {"if", "clamp", "gcd", "lcm", "min", "max"}

\* The line is a call whose number of arguments is not the number its
\* function takes
WrongCount ==
    /\ EvalOf("call")
    /\ parse_str(last.line.text).ok
    /\ LastNode.t = "Call"
    /\ IF LastNode.name \in DOMAIN last.pre_fns
       THEN Len(LastNode.kids) # Len(last.pre_fns[LastNode.name].params)
       ELSE \/ Join(LastNode.name) \in {"if", "clamp"} /\ Len(LastNode.kids) # 3
            \/ Join(LastNode.name) \in {"gcd", "lcm"} /\ Len(LastNode.kids) # 2
            \/ Join(LastNode.name) \in {"min", "max"} /\ Len(LastNode.kids) = 0
            \/ Join(LastNode.name) \in SingleArgumentNames /\ Len(LastNode.kids) # 1

\* C15: a call with the wrong number of arguments fails with ArgumentCount,
\* for a stored function, for if, clamp, gcd, lcm, min, max and for the
\* single-argument built-ins, even when an argument would fail by itself.
C15_WrongCountIsArgumentCount == WrongCount => last.result = CalcErr("ArgumentCount")

\* g of two parameters has been called with the one argument 1/0 and the
\* call failed with ArgumentCount.
C15_Witness ==
    /\ WrongCount
    /\ last.line.text = MkCall(<<"g">>, <<<<"1", "/", "0">>>>)
    /\ <<"g">> \in DOMAIN last.pre_fns
    /\ Len(last.pre_fns[<<"g">>].params) = 2
    /\ last.result = CalcErr("ArgumentCount")

\* abs has been called with the two arguments 1/0 and 2 and the call failed
\* with ArgumentCount, with the one argument 1/0 with DomainError.
C15_WitnessBuiltin ==
    /\ WrongCount
    /\ last.line.text = MkCall(<<"a", "b", "s">>, <<<<"1", "/", "0">>, <<"2">>>>)
    /\ last.result = CalcErr("ArgumentCount")
    /\ session_eval(MkCall(<<"a", "b", "s">>, <<<<"1", "/", "0">>>>), vars, fns, angle_mode).result
         = CalcErr("DomainError")

\* ------------------------------------------------------------------------
\* Properties of the errors of evaluate (specification ExprSpec)
\* ------------------------------------------------------------------------

\* The operand given where an integer is wanted is a real that is no integer
NonIntegerOperand ==
    /\ evaluate(input.operands[1], angle_mode).ok
    /\ ~RIsInt(evaluate(input.operands[1], angle_mode).val.re)

\* C16: postfix factorial, gcd and lcm fail with ArgumentType when they are
\* given a real argument that is not an integer.
C16_NonIntegerIsArgumentType ==
    (Done("integer") /\ NonIntegerOperand) =>
        /\ output.value = CalcErr("ArgumentType")
        /\ output.alt_value = CalcErr("ArgumentType")

\* gcd(2.5, 4) has been evaluated and failed with ArgumentType; 2.5! fails
\* with DomainError.
C16_Reached ==
    /\ Done("integer")
    /\ NonIntegerOperand
    /\ input.text = <<"g", "c", "d", "(", "2", ".", "5", ",", " ", "4", ")">>
    /\ output.value = CalcErr("ArgumentType")
    /\ evaluate(<<"2", ".", "5", "!">>, angle_mode) = CalcErr("DomainError")

\* C17 as stated: a call of a name that is neither user-defined nor built-in
\* fails with UndefinedName for any number of arguments.
C17_UnknownNameIsUndefined ==
    Done("unknown") => output.value = CalcErr("UndefinedName")

\* C17 restated: a call of a name that is neither user-defined nor built-in,
\* with arguments that evaluate, fails with UndefinedName when it has exactly
\* one argument and with ArgumentCount when it has none or more than one.
C17_UnknownNameOfOneArgument ==
    Done("unknown") =>
        /\ output.ast.ok
        /\ output.ast.node.t = "Call"
        /\ Len(output.ast.node.kids) = Len(input.operands)
        /\ output.value = CalcErr(IF Len(input.operands) = 1
                                  THEN "UndefinedName" ELSE "ArgumentCount")

\* foo(2+3) has failed with UndefinedName.
C17_Witness ==
    /\ Done("unknown")
    /\ input.text = <<"f", "o", "o", "(", "2", "+", "3", ")">>
    /\ output.value = CalcErr("UndefinedName")

\* foo(1, 2) has failed with ArgumentCount.
C17_WitnessTwoArguments ==
    /\ Done("unknown")
    /\ input.text = MkCall(<<"f", "o", "o">>, <<<<"1">>, <<"2">>>>)
    /\ output.value = CalcErr("ArgumentCount")

\* ------------------------------------------------------------------------
\* Properties of the numerical methods (specification ExprSpec)
\* ------------------------------------------------------------------------

\* sum or prod has returned
RangeCall == phase \in {"sum", "prod"}

RangeFrom == input.operands[1]

RangeTo == input.operands[2]

\* to - from as a mathematical integer
RangeDiff == i64_diff(RangeTo, RangeFrom)

\* The mathematical to - from is greater than MAX_TERMS
MoreThanMaxTerms ==
    RangeDiff.base >= 1 \/ (RangeDiff.base = 0 /\ RangeDiff.off > MAX_TERMS)

\* The accumulator sum and prod start from
Start == IF phase = "sum" THEN RZero ELSE ROne

\* C18: sum and prod fail with RangeTooLarge whenever the mathematical
\* difference to - from is greater than 10_000_000, for all i64 bounds, those
\* whose difference does not fit i64 included, and do not evaluate the
\* expression in that case.
C18_LargeRangeIsRangeTooLarge ==
    (RangeCall /\ MoreThanMaxTerms) => output.result = NumErr("RangeTooLarge", 0)

\* The same for the bounds whose difference fits i64.
C18_LargeRangeWithoutOverflow ==
    (RangeCall /\ MoreThanMaxTerms /\ i64_fits(RangeDiff))
        => output.result = NumErr("RangeTooLarge", 0)

\* sum("1/0", "k", 0, 10_000_001) has failed with RangeTooLarge.
C18_WitnessWithoutOverflow ==
    /\ RangeCall
    /\ input.text = <<"1", "/", "0">>
    /\ RangeFrom = I64(0, 0)
    /\ RangeTo = I64(0, MAX_TERMS + 1)
    /\ output.result = NumErr("RangeTooLarge", 0)

\* sum("1/0", "k", i64::MIN, i64::MAX) without overflow checks has evaluated
\* the expression and failed with DomainError.
C18_ReachedWrapped ==
    /\ phase = "sum"
    /\ input.text = <<"1", "/", "0">>
    /\ RangeFrom = I64Min
    /\ RangeTo = I64Max
    /\ ~output.overflow_checks
    /\ output.result = NumErr("DomainError", 1)

\* The same call with overflow checks has panicked.
C18_ReachedPanic ==
    /\ phase = "sum"
    /\ input.text = <<"1", "/", "0">>
    /\ RangeFrom = I64Min
    /\ RangeTo = I64Max
    /\ output.overflow_checks
    /\ output.result.kind = "Panic"

\* C19: sum evaluates the expression once for each k of from..=to, in
\* ascending order, and adds the values to an accumulator starting at 0.0,
\* prod multiplies them into one starting at 1.0: an empty range (from > to)
\* gives the start value without an evaluation, and the expression 1 gives
\* to - from + 1 as a sum and 1.0 as a product.  Stated for the expressions
\* that parse and the ranges within the limit of MAX_TERMS.
C19_OncePerTermAscending ==
    (RangeCall /\ ~MoreThanMaxTerms /\ parse_str(input.text).ok) =>
        /\ i64_lt(RangeTo, RangeFrom) => output.result = NumOk(Start, 0)
        /\ (~i64_lt(RangeTo, RangeFrom) /\ input.text = <<"1">>)
               => output.result = NumOk(IF phase = "sum" THEN R(RangeDiff.off + 1) ELSE ROne,
                                        RangeDiff.off + 1)

\* The result of the loop on the expression k: the terms from, from + 1, ...
\* taken in this order
RECURSIVE TermsFrom(_, _)
TermsFrom(k, acc) ==
    IF k > RangeTo.off THEN acc
    ELSE TermsFrom(k + 1, IF phase = "sum" THEN RAdd(acc, R(k)) ELSE RMul(acc, R(k)))

\* The same, and the values of the expression k, for the bounds whose
\* difference fits i64.
C19_OncePerTermWithoutOverflow ==
    (RangeCall /\ ~MoreThanMaxTerms /\ parse_str(input.text).ok /\ i64_fits(RangeDiff)) =>
        /\ i64_lt(RangeTo, RangeFrom) => output.result = NumOk(Start, 0)
        /\ (~i64_lt(RangeTo, RangeFrom) /\ input.text = <<"1">>)
               => output.result = NumOk(IF phase = "sum" THEN R(RangeDiff.off + 1) ELSE ROne,
                                        RangeDiff.off + 1)
        /\ (~i64_lt(RangeTo, RangeFrom) /\ input.text = <<"k">> /\ RangeFrom.base = 0)
               => output.result = NumOk(TermsFrom(RangeFrom.off, Start), RangeDiff.off + 1)

\* sum("1", "k", -2, 3) has returned 6.0 after six evaluations.
C19_WitnessWithoutOverflow ==
    /\ phase = "sum"
    /\ input.text = <<"1">>
    /\ RangeFrom = I64(0, -2)
    /\ RangeTo = I64(0, 3)
    /\ output.result = NumOk(R(6), 6)

\* prod("k", "k", 1, 3) has returned 6.0.
C19_WitnessProduct ==
    /\ phase = "prod"
    /\ input.text = <<"k">>
    /\ RangeFrom = I64(0, 1)
    /\ RangeTo = I64(0, 3)
    /\ output.result = NumOk(R(6), 3)

\* sum("1", "k", 1, i64::MIN), an empty range, has failed with RangeTooLarge
\* without overflow checks.
C19_ReachedWrapped ==
    /\ phase = "sum"
    /\ input.text = <<"1">>
    /\ RangeFrom = I64(0, 1)
    /\ RangeTo = I64Min
    /\ ~output.overflow_checks
    /\ output.result = NumErr("RangeTooLarge", 0)

IntegralA == input.operands[1]

IntegralB == input.operands[2]

\* The integrands of the inputs that have one value at every point
ConstantIntegrands ==
    { <<"1">>, <<"-", "3">>, <<"1", "/", "2">>, <<"x", "-", "x", "+", "2">> }

\* The integrand at x
IntegrandAt(x) == eval_at(parse_str(input.text).node, input.ops[1], x, angle_mode)

\* The weights of f(a), f(b) and the N - 1 inner points, added up
WeightTotal ==
    2 + 4 * Cardinality({ i \in 1..(SimpsonN - 1) : simpson_weight(i) = 4 })
      + 2 * Cardinality({ i \in 1..(SimpsonN - 1) : simpson_weight(i) = 2 })

C20_WitnessOne ==
    /\ phase = "integrate"
    /\ input.text = <<"1">>
    /\ IntegralA = RZero
    /\ IntegralB = <<1, 2>>
    /\ output.result = NumOk(<<1, 2>>, SimpsonN + 1)

\* ------------------------------------------------------------------------
\* Properties of conditionals and overriding definitions (specification
\* CallSpec)
\* ------------------------------------------------------------------------

\* The line is a call of the built-in `if` with three arguments
IfCall ==
    /\ EvalOf("call")
    /\ last.line.name = <<"i", "f">>
    /\ Len(last.line.args) = 3
    /\ <<"i", "f">> \notin DOMAIN last.pre_fns

\* The line is a call of the recursive function r
RecursiveCall ==
    /\ EvalOf("call")
    /\ last.line.name = <<"r">>
    /\ <<"r">> \in DOMAIN last.pre_fns
    /\ last.pre_fns[<<"r">>] = Stored(RecursiveDef)

\* C21: if(c, a, b) evaluates the condition and then one of the two values,
\* a when c is not 0+0i and b otherwise; what the other one would give, an
\* error or a further recursive call, has no effect: if(1, 2, 1/0) yields 2,
\* and a call of r(n) = if(n, r(n - 1), 7) returns once n has reached 0.
C21_IfEvaluatesOneBranch ==
    /\ IfCall =>
         last.result =
           IF ~ArgValue(1).ok THEN CalcErr(ArgValue(1).kind)
           ELSE IF ArgValue(1).val # CxZero THEN AsCalc(ArgValue(2))
           ELSE AsCalc(ArgValue(3))
    /\ (IfCall /\ last.line.args = <<<<"1">>, <<"2">>, <<"1", "/", "0">>>>)
         => last.result = CalcOk(CalcReal(R(2)))
    /\ RecursiveCall => last.result = CalcOk(CalcReal(R(7)))

\* if(x, 2, 1/0) has returned 2 while x is the imaginary unit.
C21_Witness ==
    /\ IfCall
    /\ last.line.args = <<<<"x">>, <<"2">>, <<"1", "/", "0">>>>
    /\ <<"x">> \in DOMAIN last.pre_vars
    /\ last.pre_vars[<<"x">>] = CxOf(R(0), R(1))
    /\ last.result = CalcOk(CalcReal(R(2)))

\* if(0, y, 2) has returned 2 although y is no variable.
C21_WitnessFalse ==
    /\ IfCall
    /\ last.line.args = <<<<"0">>, <<"y">>, <<"2">>>>
    /\ last.result = CalcOk(CalcReal(R(2)))

\* r(3) has returned 7, three recursive calls deep.
C21_WitnessRecursion ==
    /\ RecursiveCall
    /\ last.line.args = <<<<"3">>>>
    /\ last.result = CalcOk(CalcReal(R(7)))

\* C22: l && r returns 0.0 without evaluating r when l is 0+0i, and l || r
\* returns 1.0 without evaluating r when l is not 0+0i, so that an error in r
\* is not raised; otherwise the result is that of r as a truth value, and
\* every successful result is the real 0.0 or the real 1.0.
C22_LogicShortCircuits ==
    (EvalOf("logic") /\ ArgValue(1).ok) =>
        /\ (last.line.name = <<"&", "&">> /\ ArgValue(1).val = CxZero)
             => last.result = CalcOk(CalcReal(RZero))
        /\ (last.line.name = <<"|", "|">> /\ ArgValue(1).val # CxZero)
             => last.result = CalcOk(CalcReal(ROne))
        /\ ((last.line.name = <<"&", "&">>) = (ArgValue(1).val # CxZero))
             => last.result =
                  IF ~ArgValue(2).ok THEN CalcErr(ArgValue(2).kind)
                  ELSE CalcOk(CalcReal(IF ArgValue(2).val # CxZero THEN ROne ELSE RZero))
        /\ last.result.ok => last.result.val \in {CalcReal(RZero), CalcReal(ROne)}

\* 0 && 1/0 has returned 0.0.
C22_Witness ==
    /\ EvalOf("logic")
    /\ last.line.name = <<"&", "&">>
    /\ last.line.args = <<<<"0">>, <<"1", "/", "0">>>>
    /\ last.result = CalcOk(CalcReal(RZero))

\* x || y has returned 1.0 while x is the imaginary unit and y is no
\* variable.
C22_WitnessOr ==
    /\ EvalOf("logic")
    /\ last.line.name = <<"|", "|">>
    /\ last.line.args = <<<<"x">>, <<"y">>>>
    /\ <<"x">> \in DOMAIN last.pre_vars
    /\ last.pre_vars[<<"x">>] = CxOf(R(0), R(1))
    /\ last.result = CalcOk(CalcReal(ROne))

\* 1 && x has returned 1.0 while x is 1+2i.
C22_WitnessRight ==
    /\ EvalOf("logic")
    /\ last.line.name = <<"&", "&">>
    /\ last.line.args = <<<<"1">>, <<"x">>>>
    /\ <<"x">> \in DOMAIN last.pre_vars
    /\ last.pre_vars[<<"x">>] = CxOf(R(1), R(2))
    /\ last.result = CalcOk(CalcReal(ROne))

\* C23: function names are read without regard to letter case.  A call
\* written in any letter case, of a built-in or of a stored function, returns
\* what the call with the lower-case name returns; a function defined as
\* F(x) = ... is listed by fn_names as f; remove_fn removes the function of
\* the lower-cased name.
C23_FunctionNamesIgnoreCase ==
    /\ EvalOf("call") =>
         last.result =
           evaluate_with_vars_and_fns(MkCall(Lowered(last.line.name), last.line.args),
                                      angle_mode, last.pre_vars, last.pre_fns)
    /\ (EvalOf("def") /\ last.result.ok) =>
         /\ Lowered(last.line.name) \in Range(fn_names(fns))
         /\ \A n \in Range(fn_names(fns)) : n = Lowered(n)
    /\ last.op = "remove_fn" =>
         /\ Lowered(last.name) \notin Range(fn_names(fns))
         /\ Range(fn_names(fns)) = Range(fn_names(last.pre_fns)) \ {Lowered(last.name)}

\* F(2) has returned 3 after F(x) = x + 1 was stored under f.
C23_Witness ==
    /\ EvalOf("call")
    /\ last.line.name = <<"F">>
    /\ fn_names(last.pre_fns) = <<<<"f">>>>
    /\ last.pre_fns[<<"f">>] = Stored(UpperCaseDef)
    /\ last.result = CalcOk(CalcReal(R(3)))

\* ABS(-2) has returned 2.
C23_WitnessBuiltin ==
    /\ EvalOf("call")
    /\ last.line.name = <<"A", "B", "S">>
    /\ last.result = CalcOk(CalcReal(R(2)))

\* remove_fn("F") has removed f.
C23_WitnessRemoved ==
    /\ last.op = "remove_fn"
    /\ last.name = <<"F">>
    /\ <<"f">> \in DOMAIN last.pre_fns
    /\ <<"f">> \notin DOMAIN fns

\* ------------------------------------------------------------------------
\* Properties of failing lines (specification Spec)
\* ------------------------------------------------------------------------

\* C24: when Session::eval returns an error, on a definition whose body does
\* not parse, on an assignment whose right-hand side does not parse or does
\* not evaluate, or on a failing expression, the variables, the functions
\* and the angle mode are as they were before the call.
C24_ErrorLeavesSessionUnchanged ==
    [][(last'.op = "eval" /\ ~last'.result.ok)
          => (vars' = vars /\ fns' = fns /\ angle_mode' = angle_mode)]_state

\* The definition f(x) = x + has failed while f was defined.
C24_Witness ==
    /\ EvalOf("def")
    /\ last.line.body = <<"x", " ", "+">>
    /\ last.result = CalcErr("ParseError")
    /\ <<"f">> \in DOMAIN last.pre_fns
    /\ fns = last.pre_fns

\* The assignment x = 1/0 has failed while x had no value, and x has none.
C24_WitnessAssignment ==
    /\ EvalOf("assign")
    /\ last.line.text = MkAssign(<<"x">>, <<"1", "/", "0">>)
    /\ last.result = CalcErr("DomainError")
    /\ <<"x">> \notin DOMAIN last.pre_vars
    /\ <<"x">> \notin DOMAIN vars

\* The assignment X = 1 + has failed to parse while X had a value.
C24_WitnessParse ==
    /\ EvalOf("assign")
    /\ last.line.text = MkAssign(<<"X">>, <<"1", " ", "+">>)
    /\ last.result = CalcErr("ParseError")
    /\ <<"X">> \in DOMAIN last.pre_vars
    /\ vars = last.pre_vars

\* ------------------------------------------------------------------------
\* Properties of the forms of a line (specification ExprSpec)
\* ------------------------------------------------------------------------

\* The line as Session::eval reads it
TrimmedLine == trim(input.text)

\* The `=` at i is an assignment sign: it follows none of ! < >, no = follows
\* it, and the text before it trims to an identifier
AssignmentSign(line, i) ==
    /\ line[i] = "="
    /\ (i > 1 => line[i - 1] \notin {"!", "<", ">"})
    /\ (i < Len(line) => line[i + 1] # "=")
    /\ is_identifier(trim(SubSeq(line, 1, i - 1)))

\* The line has an assignment sign with something on its right
AssignmentWithRhs(line) ==
    \E i \in 1..Len(line) :
        AssignmentSign(line, i) /\ trim(SubSeq(line, i + 1, Len(line))) # <<>>

\* The line is a comparison of a with something
ComparisonLine ==
    /\ trim(input.operands[1]) = <<"a">>
    /\ input.ops[1] \in { <<"=", "=">>, <<"!", "=">>, <<"<", "=">>, <<">", "=">>, <<"<">> }

\* C25: a line that is no function definition is taken as an assignment
\* exactly when it has an `=` that follows none of ! < >, is followed by no
\* =, has an identifier before it and a non-empty right-hand side after it;
\* every other line is evaluated as an expression, and the comparison lines
\* a == b, a != b, a <= b, a >= b leave the variables as they are.
C25_AssignmentForm ==
    (phase = "session_eval" /\ ~split_fn_def(TrimmedLine).some) =>
        /\ (output.form = "assignment") = AssignmentWithRhs(TrimmedLine)
        /\ output.form # "assignment" =>
             /\ output.form = "expression"
             /\ output.vars = LineVars
             /\ output.result =
                  evaluate_with_vars_and_fns(TrimmedLine, angle_mode, LineVars, EmptyMap)
        /\ ComparisonLine => output.form = "expression" /\ output.vars = LineVars

\* C25 restated: a line that is no function definition is taken as an
\* assignment exactly when it has an `=` that follows none of ! < >, is
\* followed by no = and has an identifier before it, whatever is on its
\* right; an empty right-hand side then fails to parse and assigns
\* nothing.  Every other line is evaluated as an expression, and the
\* comparison lines leave the variables as they are.
C25_AssignmentFormOfAnyRhs ==
    (phase = "session_eval" /\ ~split_fn_def(TrimmedLine).some) =>
        /\ (output.form = "assignment")
             = (\E i \in 1..Len(TrimmedLine) : AssignmentSign(TrimmedLine, i))
        /\ (output.form = "assignment" /\ ~AssignmentWithRhs(TrimmedLine))
             => output.result = CalcErr("ParseError") /\ output.vars = LineVars
        /\ output.form # "assignment" =>
             /\ output.form = "expression"
             /\ output.vars = LineVars
             /\ output.result =
                  evaluate_with_vars_and_fns(TrimmedLine, angle_mode, LineVars, EmptyMap)
        /\ ComparisonLine => output.form = "expression" /\ output.vars = LineVars

\* The line `a =` has been taken as an assignment and has failed to parse.
C25_WitnessEmptyRhs ==
    /\ phase = "session_eval"
    /\ input.text = <<"a", "=">>
    /\ output.form = "assignment"
    /\ output.result = CalcErr("ParseError")

\* The line `a==a == 5` has been evaluated as an expression.
C25_WitnessComparison ==
    /\ phase = "session_eval"
    /\ input.text = <<"a", "=", "=", "a", " ", "=", "=", " ", "5">>
    /\ output.form = "expression"
    /\ output.vars = LineVars

\* The line ` a  =  7 ` has assigned 7 to a.
C25_WitnessAssignment ==
    /\ phase = "session_eval"
    /\ input.text = <<" ", "a", " ", " ", "=", " ", " ", "7", " ">>
    /\ output.form = "assignment"
    /\ output.vars[<<"a">>] = CxReal(R(7))

\* ------------------------------------------------------------------------
\* Properties of the order of evaluation (specification ArgSpec)
\* ------------------------------------------------------------------------

\* The operands or arguments of the line that fail when evaluated by
\* themselves in the session before the call
FailingArgs == { i \in 1..Len(last.line.args) : ~ArgValue(i).ok }

\* The error of the leftmost of them
LeftmostError == CalcErr(ArgValue(CHOOSE i \in FailingArgs : \A j \in FailingArgs : i <= j).kind)

\* The line is a binary arithmetic or comparison operator, or a call with
\* as many arguments as its function takes, and two of its operands or
\* arguments fail
SeveralFail ==
    /\ last.op = "eval"
    /\ last.line.kind \in {"binary", "call"}
    /\ Cardinality(FailingArgs) >= 2
    /\ last.line.kind = "call" =>
         ~wrong_arg_count(Lowered(last.line.name), Len(last.line.args), last.pre_fns)

\* The line is a call of the built-in `if`
BuiltinIf ==
    /\ last.line.kind = "call"
    /\ last.line.name = <<"i", "f">>
    /\ <<"i", "f">> \notin DOMAIN last.pre_fns

C26_WitnessOperator ==
    /\ SeveralFail
    /\ last.line.kind = "binary"
    /\ last.line.name = <<"<", "=">>
    /\ last.line.args[1] = <<"y">>
    /\ last.result = CalcErr("UndefinedName")

\* if(0, y, (1/0)) has failed with DomainError, the error of its last
\* argument.
C26_WitnessIf ==
    /\ SeveralFail
    /\ BuiltinIf
    /\ last.line.args = <<<<"0">>, <<"y">>, <<"(", "1", "/", "0", ")">>>>
    /\ last.result = CalcErr("DomainError")

\* The line is a call of g(x, y) = x - y with two arguments
CallOfG ==
    /\ EvalOf("call")
    /\ last.line.name = <<"g">>
    /\ Len(last.line.args) = 2
    /\ <<"g">> \in DOMAIN last.pre_fns
    /\ last.pre_fns[<<"g">>].params = <<<<"x">>, <<"y">>>>

\* C27: every argument of a call of a stored function is evaluated in the
\* caller's variables, not in those of the call as bound so far: in g(1, x)
\* with the parameters (x, y) the x of the second argument is the caller's
\* x, and the call fails with UndefinedName when the caller has none.
C27_ArgumentsSeeCallerVariables ==
    /\ CallOfG =>
         last.result =
           IF FailingArgs # {} THEN LeftmostError
           ELSE AsCalc(eval_ast(last.pre_fns[<<"g">>].body,
                                [n \in DOMAIN last.pre_vars \cup {<<"x">>, <<"y">>} |->
                                    IF n = <<"x">> THEN ArgValue(1).val
                                    ELSE IF n = <<"y">> THEN ArgValue(2).val
                                    ELSE last.pre_vars[n]],
                                last.pre_fns, angle_mode, 1))
    /\ (CallOfG /\ last.line.args = <<<<"1">>, <<"x">>>> /\ <<"x">> \notin DOMAIN last.pre_vars)
         => last.result = CalcErr("UndefinedName")

\* g(1, x) has failed with UndefinedName in a session without x.
C27_Witness ==
    /\ CallOfG
    /\ last.line.args = <<<<"1">>, <<"x">>>>
    /\ <<"x">> \notin DOMAIN last.pre_vars
    /\ last.result = CalcErr("UndefinedName")

\* g(1, x) has returned -2 in a session where x is 3.
C27_WitnessCallerValue ==
    /\ CallOfG
    /\ last.line.args = <<<<"1">>, <<"x">>>>
    /\ <<"x">> \in DOMAIN last.pre_vars
    /\ last.pre_vars[<<"x">>] = CxReal(R(3))
    /\ last.result = CalcOk(CalcReal(R(-2)))

\* The line is one of the calls of abs or if with literal arguments
OverrideCall == last.op = "eval" /\ last.line \in OverrideCalls

\* The function stored under the name the line calls
Callee == last.pre_fns[Lowered(last.line.name)]

\* C28: a call resolves its name to the stored function first, and to the
\* built-ins only when no function is stored under the name: once
\* abs(x) = x + 1 or if(a, b, c) = a is stored, every call of the name is a
\* call of the stored function, and after remove_fn of the name the built-in
\* answers again.
C28_StoredFunctionOverridesBuiltin ==
    /\ (OverrideCall /\ Lowered(last.line.name) \in DOMAIN last.pre_fns) =>
         last.result =
           IF Len(last.line.args) # Len(Callee.params) THEN CalcErr("ArgumentCount")
           ELSE IF FailingArgs # {} THEN LeftmostError
           ELSE AsCalc(eval_ast(Callee.body, CallEnv(Callee.params),
                                last.pre_fns, angle_mode, 1))
    /\ (OverrideCall /\ Lowered(last.line.name) \notin DOMAIN last.pre_fns) =>
         last.result = evaluate_with_vars(last.line.text, angle_mode, last.pre_vars)
    /\ (OverrideCall /\ last.line.name = <<"a", "b", "s">> /\ last.line.args = <<<<"-", "2">>>>) =>
         last.result = CalcOk(CalcReal(IF <<"a", "b", "s">> \in DOMAIN last.pre_fns
                                       THEN R(-1) ELSE R(2)))
    /\ (last.op = "remove_fn" /\ Lowered(last.name) \in {<<"a", "b", "s">>, <<"i", "f">>}) =>
         /\ Lowered(last.name) \notin DOMAIN fns
         /\ evaluate_with_vars_and_fns(MkCall(<<"a", "b", "s">>, <<<<"-", "2">>>>),
                                       angle_mode, vars, fns)
              = CalcOk(CalcReal(IF <<"a", "b", "s">> \in DOMAIN fns THEN R(-1) ELSE R(2)))

\* abs(-2) has returned -1 while abs(x) = x + 1 is stored.
C28_Witness ==
    /\ OverrideCall
    /\ last.line.text = MkCall(<<"a", "b", "s">>, <<<<"-", "2">>>>)
    /\ <<"a", "b", "s">> \in DOMAIN last.pre_fns
    /\ last.result = CalcOk(CalcReal(R(-1)))

\* if(5, 2, 1/0) has failed with DomainError while if(a, b, c) = a is
\* stored: the stored function has all its arguments evaluated.
C28_WitnessIf ==
    /\ OverrideCall
    /\ last.line.args = <<<<"5">>, <<"2">>, <<"1", "/", "0">>>>
    /\ <<"i", "f">> \in DOMAIN last.pre_fns
    /\ last.result = CalcErr("DomainError")

\* remove_fn("abs") has removed the stored abs, and abs(-2) is 2 again.
C28_WitnessRemoved ==
    /\ last.op = "remove_fn"
    /\ last.name = <<"a", "b", "s">>
    /\ <<"a", "b", "s">> \in DOMAIN last.pre_fns
    /\ evaluate_with_vars_and_fns(MkCall(<<"a", "b", "s">>, <<<<"-", "2">>>>),
                                  angle_mode, vars, fns) = CalcOk(CalcReal(R(2)))

\* ------------------------------------------------------------------------
\* Properties of gcd and lcm (specification ExprSpec)
\* ------------------------------------------------------------------------

\* The integer an argument of the call was written from
DivisorValue(i) == CHOOSE k \in DivisorValues : IntegerText(k) = input.operands[i]

\* d divides n
Divides(d, n) == \E q \in 0..Abs(n) : q * d = Abs(n)

\* The greatest of the common divisors of |a| and |b|, and 0 for a = b = 0
GreatestCommonDivisor(a, b) ==
    IF a = 0 /\ b = 0 THEN 0
    ELSE CHOOSE d \in 1..(Abs(a) + Abs(b)) :
           /\ Divides(d, a) /\ Divides(d, b)
           /\ \A e \in 1..(Abs(a) + Abs(b)) : (Divides(e, a) /\ Divides(e, b)) => e <= d

\* C29: on integers a and b, gcd(a, b) is the greatest common divisor of |a|
\* and |b|, with gcd(a, 0) = |a| and gcd(0, 0) = 0, and lcm(a, b) is
\* |a * b| / gcd(a, b), with lcm(0, 0) = 0; both are real, non-negative and
\* the same for (b, a).
C29_GcdAndLcm ==
    Done("divisor") =>
      LET a == DivisorValue(1)
          b == DivisorValue(2)
          g == GreatestCommonDivisor(a, b)
      IN /\ output.value.ok
         /\ output.value.val.tag = "Real"
         /\ output.value.val.re =
              IF input.ops[1] = <<"g", "c", "d">> THEN R(g)
              ELSE IF g = 0 THEN R(0) ELSE R(Abs(a * b) \div g)
         /\ (input.ops[1] = <<"g", "c", "d">> /\ b = 0) => output.value.val.re = R(Abs(a))
         /\ (input.ops[1] = <<"l", "c", "m">> /\ g # 0) =>
              output.value.val.re[1] * g = Abs(a * b)
         /\ output.value.val.re[1] >= 0
         /\ output.alt_value = output.value

\* gcd(-12, 30) has returned 6.
C29_Witness ==
    /\ Done("divisor")
    /\ input.text = MkCall(<<"g", "c", "d">>, << <<"-", "1", "2">>, <<"3", "0">> >>)
    /\ output.value = CalcOk(CalcReal(R(6)))

\* lcm(4, -6) has returned 12.
C29_WitnessLcm ==
    /\ Done("divisor")
    /\ input.text = MkCall(<<"l", "c", "m">>, << <<"4">>, <<"-", "6">> >>)
    /\ output.value = CalcOk(CalcReal(R(12)))

\* gcd(0, 0) and lcm(0, 0) have returned 0.
C29_WitnessZero ==
    /\ Done("divisor")
    /\ input.operands = << <<"0">>, <<"0">> >>
    /\ output.value = CalcOk(CalcReal(R(0)))

\* ------------------------------------------------------------------------
\* Properties of the tokens of `&` and `|` (specification ExprSpec)
\* ------------------------------------------------------------------------

\* The tokens of the text before the sign
LeadTokens == tokenize(input.operands[1]).tokens

\* The tokens the absolute-value macro starts with
AbsOpening == <<TokIdent(<<"a", "b", "s">>), Tok("LParen")>>

\* The text gives the tokens of its lead, then the given tokens, then the
\* tokens of the rest
SignGives(toks) ==
    /\ tokenize(input.text).ok
    /\ tokenize(input.operands[2]).ok
    /\ tokenize(input.text).tokens = LeadTokens \o toks \o tokenize(input.operands[2]).tokens

\* The text gives the tokens of its lead and then the opening of the
\* absolute-value macro
SignOpensAbs ==
    /\ tokenize(input.text).ok
    /\ Len(tokenize(input.text).tokens) >= Len(LeadTokens) + 3
    /\ SubSeq(tokenize(input.text).tokens, 1, Len(LeadTokens) + 2) = LeadTokens \o AbsOpening

\* `&&` gives the and token, `||` the or token, and a `|` that no `|`
\* follows opens the absolute-value macro
SignTokens ==
    /\ input.ops[1] = <<"&", "&">> => SignGives(<<Tok("AndAnd")>>)
    /\ input.ops[1] = <<"|", "|">> => SignGives(<<Tok("OrOr")>>)
    /\ input.ops[1] = <<"|">> => SignOpensAbs

\* C30 as stated: `&&` gives the and token and `||` the or token, and a `&`
\* that no `&` follows opens the absolute-value macro just as a `|` that no
\* `|` follows does.
C30_SingleSignOpensAbs ==
    Done("sign") =>
        /\ SignTokens
        /\ input.ops[1] = <<"&">> => SignOpensAbs

\* C30 as the tokenizer has it: `&&` gives the and token and `||` the or
\* token; a `|` that no `|` follows opens the absolute-value macro, and a `&`
\* that no `&` follows is a ParseError.
C30_SingleAmpersandIsParseError ==
    Done("sign") =>
        /\ SignTokens
        /\ input.ops[1] = <<"&">> =>
             /\ tokenize(input.text) = TokErr("ParseError")
             /\ output.ast = PErr("ParseError")
             /\ output.value = CalcErr("ParseError")

\* `1 & 2` has been given to parse_str and evaluate, and both have failed
\* with ParseError.
C30_Witness ==
    /\ Done("sign")
    /\ input.text = <<"1", " ", "&", " ", "2">>
    /\ output.ast = PErr("ParseError")
    /\ output.value = CalcErr("ParseError")

\* `1&&2` has been evaluated to 1 and `1||2` to 1.
C30_WitnessAnd ==
    /\ Done("sign")
    /\ input.text = <<"1", "&", "&", "2">>
    /\ output.value = CalcOk(CalcReal(R(1)))
    /\ evaluate(<<"1", "|", "|", "2">>, angle_mode) = CalcOk(CalcReal(R(1)))

\* `|-3|+1` has been evaluated to 4.
C30_WitnessBar ==
    /\ Done("sign")
    /\ input.text = <<"|", "-", "3", "|", "+", "1">>
    /\ output.value = CalcOk(CalcReal(R(4)))

====
